---------------------------- MODULE Spec2Model ----------------------------
(***************************************************************************)
(* Model of the network-initializer crate: the topology validator of       *)
(* src/src/validate.rs (network_validate, validate_config and the checks   *)
(* it calls) and network_init of src/src/init.rs (the spawn loops, the     *)
(* wiring loops and the assembly of the result), one action per loop       *)
(* iteration, with the spawned node threads as the environment.            *)
(* The hash-map validator of src/src/utils_.rs is modelled beside them as  *)
(* operators, to be compared with validate_config of validate.rs.          *)
(*                                                                         *)
(* A Config is a record of three sequences (drone, client, server) whose   *)
(* entries keep the field names of wg_2024::config.  A FixedBitSet is      *)
(* modelled as a set of indices; its ones() iterator yields the indices in *)
(* ascending order, which the scans below reproduce.  A Result<(), String> *)
(* is modelled as a record [msg, args]: msg is the format string of the    *)
(* error and args the values formatted into it (OK has msg "Ok").          *)
(* A drone's pdr (f32) is modelled as an integer scaled by PdrScale, so    *)
(* 0.0 is 0 and 1.0 is PdrScale.                                           *)
(***************************************************************************)
EXTENDS Integers, Sequences, FiniteSets, TLC

\* Capacity of the id-indexed bit-sets and arrays (rust_roveri_api::MAX_NODES,
\* whose value is set outside this crate); ids of the model stay below it.
MAX_NODES == 8
\* Ids used by the enumerated Configs are 0 .. MaxGenId.
MaxGenId == 2
\* Ids of the enumerated bidirectional Configs are 0 .. MaxSymId.
MaxSymId == 3
\* The largest degree of a client and the smallest degree of a server.
ClientMaxDegree == 2
ServerMinDegree == 2
\* 1.0 as a scaled integer.
PdrScale == 2
\* Numbers of drone implementations, client types and server types
\* (rust_roveri_api::MAX_IMPL, MAX_CLIENT_TYPES, MAX_SERVER_TYPES, whose
\* values are set outside this crate).
MAX_IMPL == 2
MAX_CLIENT_TYPES == 2
MAX_SERVER_TYPES == 2

NodeIds == 0 .. (MAX_NODES - 1)
GenIds == 0 .. MaxGenId
PdrVals == (0 - 1) .. (PdrScale + 1)

VARIABLES
    config,     \* the Config under validation (never modified)
    pc,         \* position inside validate_config
    node_ids,   \* FixedBitSet of the ids inserted so far
    drone_ids,  \* clone of node_ids taken after the drone loop
    n_nodes,    \* number of ids inserted
    n_drones,   \* n_nodes after the drone loop
    graph,      \* [FixedBitSet; MAX_NODES]
    result      \* Result<(), String> returned by validate_config

\* State of the caller of network_validate and of network_init
\* (src/src/init.rs), and of the node threads it spawns.
VARIABLES
    file,               \* what network_validate finds at file_path
    ipc,                \* position of the caller / inside network_init
    i_node,             \* index of the entry the current loop is at
    i_nbr,              \* index in that entry's neighbor list (wiring loops)
    topology,           \* [(NodeType, FixedBitSet); MAX_NODES]
    senders,            \* [Command; MAX_NODES]
    packet_send_map,    \* [Option<Sender<Packet>>; MAX_NODES]
    distros,            \* drones_distro, clients_distro, servers_distro
    indexes,            \* index_drone_impl, index_client_types, index_server_types
    list_gui_channels,  \* Vec of (NodeId, ClientType, channels)
    threads,            \* the spawned node threads, in spawn order
    command_channels,   \* the command channel created for each spawned node
    sent                \* every sender.send(..) of the wiring loops, in order

vvars == <<pc, node_ids, drone_ids, n_nodes, n_drones, graph, result>>
ivars == <<file, ipc, i_node, i_nbr, topology, senders, packet_send_map, distros,
           indexes, list_gui_channels, threads, command_channels, sent>>
vars == <<config, pc, node_ids, drone_ids, n_nodes, n_drones, graph, result,
          ivars>>

----------------------------------------------------------------------------
\* Results

OK == [msg |-> "Ok", args |-> <<>>]
Err(m, a) == [msg |-> m, args |-> a]
Pending == [msg |-> "pending", args |-> <<>>]

MsgDuplicateId == "Duplicate node ID found: [{}]"
MsgInvalidPdr == "Invalid PDR for drone [{}]: {}"
MsgDroneSelf == "Drone [{}] is connected to itself"
MsgDroneDupNbr == "Drone [{}] has duplicate neighbor [{}]"
MsgClientZero == "Client [{}] is connected to 0 drones"
MsgClientMany == "Client [{}] has more than 2 neighbors"
MsgClientSelf == "Client [{}] is connected to itself"
MsgClientDupNbr == "Client [{}] has duplicate neighbor [{}]"
MsgServerFew == "Server [{}] has less than 2 neighbors"
MsgServerSelf == "Server [{}] is connected to itself"
MsgServerDupNbr == "Server [{}] has duplicate neighbor [{}]"
MsgClientNotDrone == "Client [{}] is connected to [{}], which is not a drone"
MsgServerNotDrone == "Server [{}] is connected to [{}], which is not a drone"
MsgNotExist == "Node [{}] has [{}] as neighbor, which does not exist in the topology."
MsgNotBidirectional == "The topology is not bidirectional: node [{}] is reachable from [{}], but not vice versa."
MsgNotConnected == "The network topology is not connected"
MsgNotOnEdge == "Clients and servers are not all on the edge of the network"
MsgAssert == "panic: assert_eq(n_nodes, drone.len + client.len + server.len) failed"

----------------------------------------------------------------------------
\* Per-node checks

\* The loop over a neighbor list with the scratch bit-set `set`: at each
\* position the self-loop test comes first, then the duplicate test.
\* Mutant of ScanNeighbors: the whole list is searched for the node's own id
\* before any duplicate is looked for.
RECURSIVE ScanNeighbors_SelfLoopFirst(_, _, _, _, _, _)
ScanNeighbors_SelfLoopFirst(selfMsg, dupMsg, id, list, i, set) ==
    IF i > Len(list) THEN OK
    ELSE LET connected_id == list[i] IN
         IF \E k \in i .. Len(list) : list[k] = id THEN Err(selfMsg, <<id>>)
         ELSE IF connected_id \in set THEN Err(dupMsg, <<id, connected_id>>)
         ELSE ScanNeighbors_SelfLoopFirst(selfMsg, dupMsg, id, list, i + 1,
                                          set \cup {connected_id})

\* The for loop over a neighbor list, resumed at position i with the scratch
\* bit-set `set`.
RECURSIVE ScanNeighbors(_, _, _, _, _, _)
ScanNeighbors(selfMsg, dupMsg, id, list, i, set) ==
    IF i > Len(list) THEN OK
    ELSE LET connected_id == list[i] IN
         IF connected_id = id THEN Err(selfMsg, <<id>>)
         ELSE IF connected_id \in set THEN Err(dupMsg, <<id, connected_id>>)
         ELSE ScanNeighbors(selfMsg, dupMsg, id, list, i + 1, set \cup {connected_id})

\* Mutant of validate_drone: the neighbor list is scanned before the pdr is
\* checked.
validate_drone_ScanFirst(drone) ==
    LET r == ScanNeighbors(MsgDroneSelf, MsgDroneDupNbr, drone.id,
                           drone.connected_node_ids, 1, {})
    IN IF r # OK THEN r
       ELSE IF drone.pdr < 0 \/ drone.pdr > PdrScale
       THEN Err(MsgInvalidPdr, <<drone.id, drone.pdr>>)
       ELSE OK

validate_drone(drone) ==
    IF drone.pdr < 0 \/ drone.pdr > PdrScale
    THEN Err(MsgInvalidPdr, <<drone.id, drone.pdr>>)
    ELSE ScanNeighbors(MsgDroneSelf, MsgDroneDupNbr, drone.id,
                       drone.connected_node_ids, 1, {})

\* Mutant of validate_client: the neighbor list is scanned before the degree
\* is checked.
validate_client_ScanFirst(client) ==
    LET r == ScanNeighbors(MsgClientSelf, MsgClientDupNbr, client.id,
                           client.connected_drone_ids, 1, {})
    IN IF r # OK THEN r
       ELSE IF Len(client.connected_drone_ids) = 0
       THEN Err(MsgClientZero, <<client.id>>)
       ELSE IF Len(client.connected_drone_ids) > ClientMaxDegree
       THEN Err(MsgClientMany, <<client.id>>)
       ELSE OK

\* Mutant of validate_client: a client connected to no drone is let through.
validate_client_ZeroAllowed(client) ==
    IF Len(client.connected_drone_ids) > ClientMaxDegree
    THEN Err(MsgClientMany, <<client.id>>)
    ELSE ScanNeighbors(MsgClientSelf, MsgClientDupNbr, client.id,
                       client.connected_drone_ids, 1, {})

validate_client(client) ==
    IF Len(client.connected_drone_ids) = 0
    THEN Err(MsgClientZero, <<client.id>>)
    ELSE IF Len(client.connected_drone_ids) > ClientMaxDegree
    THEN Err(MsgClientMany, <<client.id>>)
    ELSE ScanNeighbors(MsgClientSelf, MsgClientDupNbr, client.id,
                       client.connected_drone_ids, 1, {})

\* Mutant of validate_server: the lower bound on the degree is off by one.
validate_server_MinOne(server) ==
    IF Len(server.connected_drone_ids) < 1
    THEN Err(MsgServerFew, <<server.id>>)
    ELSE ScanNeighbors(MsgServerSelf, MsgServerDupNbr, server.id,
                       server.connected_drone_ids, 1, {})

validate_server(server) ==
    IF Len(server.connected_drone_ids) < ServerMinDegree
    THEN Err(MsgServerFew, <<server.id>>)
    ELSE ScanNeighbors(MsgServerSelf, MsgServerDupNbr, server.id,
                       server.connected_drone_ids, 1, {})

\* One of the three loops of validate_config over entries[i..]: the entry's
\* own check, then the duplicate-id test, then the insertion.
\* Mutant of DroneLoop: the duplicate-id test comes before the drone's own check.
RECURSIVE DroneLoop_DuplicateFirst(_, _, _, _)
DroneLoop_DuplicateFirst(entries, i, ids, n) ==
    IF i > Len(entries) THEN [err |-> OK, ids |-> ids, n |-> n]
    ELSE LET drone == entries[i]
             r == validate_drone(drone)
         IN IF drone.id \in ids
            THEN [err |-> Err(MsgDuplicateId, <<drone.id>>), ids |-> ids, n |-> n]
            ELSE IF r # OK THEN [err |-> r, ids |-> ids, n |-> n]
            ELSE DroneLoop_DuplicateFirst(entries, i + 1, ids \cup {drone.id}, n + 1)

RECURSIVE DroneLoop(_, _, _, _)
DroneLoop(entries, i, ids, n) ==
    IF i > Len(entries) THEN [err |-> OK, ids |-> ids, n |-> n]
    ELSE LET drone == entries[i]
             r == validate_drone(drone)
         IN IF r # OK THEN [err |-> r, ids |-> ids, n |-> n]
            ELSE IF drone.id \in ids
            THEN [err |-> Err(MsgDuplicateId, <<drone.id>>), ids |-> ids, n |-> n]
            ELSE DroneLoop(entries, i + 1, ids \cup {drone.id}, n + 1)

\* Mutant of ClientLoop: the duplicate-id test is left out.
RECURSIVE ClientLoop_NoDuplicateTest(_, _, _, _)
ClientLoop_NoDuplicateTest(entries, i, ids, n) ==
    IF i > Len(entries) THEN [err |-> OK, ids |-> ids, n |-> n]
    ELSE LET client == entries[i]
             r == validate_client(client)
         IN IF r # OK THEN [err |-> r, ids |-> ids, n |-> n]
            ELSE ClientLoop_NoDuplicateTest(entries, i + 1,
                                            ids \cup {client.id}, n + 1)

RECURSIVE ClientLoop(_, _, _, _)
ClientLoop(entries, i, ids, n) ==
    IF i > Len(entries) THEN [err |-> OK, ids |-> ids, n |-> n]
    ELSE LET client == entries[i]
             r == validate_client(client)
         IN IF r # OK THEN [err |-> r, ids |-> ids, n |-> n]
            ELSE IF client.id \in ids
            THEN [err |-> Err(MsgDuplicateId, <<client.id>>), ids |-> ids, n |-> n]
            ELSE ClientLoop(entries, i + 1, ids \cup {client.id}, n + 1)

\* Mutant of ServerLoop: a server whose id was seen is passed over.
RECURSIVE ServerLoop_DuplicatePassedOver(_, _, _, _)
ServerLoop_DuplicatePassedOver(entries, i, ids, n) ==
    IF i > Len(entries) THEN [err |-> OK, ids |-> ids, n |-> n]
    ELSE LET server == entries[i]
             r == validate_server(server)
         IN IF r # OK THEN [err |-> r, ids |-> ids, n |-> n]
            ELSE IF server.id \in ids
            THEN ServerLoop_DuplicatePassedOver(entries, i + 1, ids, n)
            ELSE ServerLoop_DuplicatePassedOver(entries, i + 1,
                                                ids \cup {server.id}, n + 1)

RECURSIVE ServerLoop(_, _, _, _)
ServerLoop(entries, i, ids, n) ==
    IF i > Len(entries) THEN [err |-> OK, ids |-> ids, n |-> n]
    ELSE LET server == entries[i]
             r == validate_server(server)
         IN IF r # OK THEN [err |-> r, ids |-> ids, n |-> n]
            ELSE IF server.id \in ids
            THEN [err |-> Err(MsgDuplicateId, <<server.id>>), ids |-> ids, n |-> n]
            ELSE ServerLoop(entries, i + 1, ids \cup {server.id}, n + 1)

----------------------------------------------------------------------------
\* Whole-graph checks

\* Mutant of NeighborsAreDrones: the error leaves out the client's or server's id.
RECURSIVE NeighborsAreDrones_NeighborOnly(_, _, _, _, _)
NeighborsAreDrones_NeighborOnly(msg, entries, i, j, drones) ==
    IF i > Len(entries) THEN OK
    ELSE IF j > Len(entries[i].connected_drone_ids)
    THEN NeighborsAreDrones_NeighborOnly(msg, entries, i + 1, 1, drones)
    ELSE LET id == entries[i].connected_drone_ids[j] IN
         IF id \notin drones THEN Err(msg, <<id>>)
         ELSE NeighborsAreDrones_NeighborOnly(msg, entries, i, j + 1, drones)

RECURSIVE NeighborsAreDrones(_, _, _, _, _)
NeighborsAreDrones(msg, entries, i, j, drones) ==
    IF i > Len(entries) THEN OK
    ELSE IF j > Len(entries[i].connected_drone_ids)
    THEN NeighborsAreDrones(msg, entries, i + 1, 1, drones)
    ELSE LET id == entries[i].connected_drone_ids[j] IN
         IF id \notin drones THEN Err(msg, <<entries[i].id, id>>)
         ELSE NeighborsAreDrones(msg, entries, i, j + 1, drones)

\* Mutant of validate_all_neighbors_are_drones: the servers are examined
\* before the clients.
validate_all_neighbors_are_drones_ServersFirst(cfg, drones) ==
    LET c == NeighborsAreDrones(MsgServerNotDrone, cfg.server, 1, 1, drones) IN
    IF c # OK THEN c
    ELSE NeighborsAreDrones(MsgClientNotDrone, cfg.client, 1, 1, drones)

validate_all_neighbors_are_drones(cfg, drones) ==
    LET c == NeighborsAreDrones(MsgClientNotDrone, cfg.client, 1, 1, drones) IN
    IF c # OK THEN c
    ELSE NeighborsAreDrones(MsgServerNotDrone, cfg.server, 1, 1, drones)

Range(list) == {list[k] : k \in DOMAIN list}

\* graph[n] collects every id listed by an entry whose id is n.
compute_init_graph(cfg) ==
    [n \in NodeIds |->
        UNION {Range(cfg.drone[i].connected_node_ids) :
                   i \in {k \in DOMAIN cfg.drone : cfg.drone[k].id = n}}
        \cup UNION {Range(cfg.client[i].connected_drone_ids) :
                   i \in {k \in DOMAIN cfg.client : cfg.client[k].id = n}}
        \cup UNION {Range(cfg.server[i].connected_drone_ids) :
                   i \in {k \in DOMAIN cfg.server : cfg.server[k].id = n}}]

\* Mutant of BidirectionalScan: the reverse edge is not looked for.
RECURSIVE BidirectionalScan_NoReverseTest(_, _, _, _)
BidirectionalScan_NoReverseTest(g, ids, node, id) ==
    IF node >= MAX_NODES THEN OK
    ELSE IF node \notin ids \/ id >= MAX_NODES
    THEN BidirectionalScan_NoReverseTest(g, ids, node + 1, 0)
    ELSE IF id \notin g[node]
    THEN BidirectionalScan_NoReverseTest(g, ids, node, id + 1)
    ELSE IF id \notin ids THEN Err(MsgNotExist, <<node, id>>)
    ELSE BidirectionalScan_NoReverseTest(g, ids, node, id + 1)

\* Mutant of BidirectionalScan: the reverse edge is looked for before the
\* neighbor is known to exist.
RECURSIVE BidirectionalScan_ReverseFirst(_, _, _, _)
BidirectionalScan_ReverseFirst(g, ids, node, id) ==
    IF node >= MAX_NODES THEN OK
    ELSE IF node \notin ids \/ id >= MAX_NODES
    THEN BidirectionalScan_ReverseFirst(g, ids, node + 1, 0)
    ELSE IF id \notin g[node]
    THEN BidirectionalScan_ReverseFirst(g, ids, node, id + 1)
    ELSE IF node \notin g[id] THEN Err(MsgNotBidirectional, <<id, node>>)
    ELSE IF id \notin ids THEN Err(MsgNotExist, <<node, id>>)
    ELSE BidirectionalScan_ReverseFirst(g, ids, node, id + 1)

\* The two nested ones() scans, resumed at (node, id); both ascend.
RECURSIVE BidirectionalScan(_, _, _, _)
BidirectionalScan(g, ids, node, id) ==
    IF node >= MAX_NODES THEN OK
    ELSE IF node \notin ids \/ id >= MAX_NODES
    THEN BidirectionalScan(g, ids, node + 1, 0)
    ELSE IF id \notin g[node] THEN BidirectionalScan(g, ids, node, id + 1)
    ELSE IF id \notin ids THEN Err(MsgNotExist, <<node, id>>)
    ELSE IF node \notin g[id] THEN Err(MsgNotBidirectional, <<id, node>>)
    ELSE BidirectionalScan(g, ids, node, id + 1)

validate_bidirectional_graph(g, ids) == BidirectionalScan(g, ids, 0, 0)

\* FixedBitSet::ones(): the members in ascending order.
RECURSIVE Ones(_)
Ones(S) ==
    IF S = {} THEN <<>>
    ELSE LET m == CHOOSE x \in S : \A y \in S : x <= y
         IN <<m>> \o Ones(S \ {m})

\* The while-let loop of a traversal: pops a node, counts it, and enqueues
\* its unvisited neighbors among `allowed`; returns n_visited.
RECURSIVE Bfs(_, _, _, _, _)
Bfs(g, allowed, queue, visited, n_visited) ==
    IF queue = <<>> THEN n_visited
    ELSE LET node == Head(queue)
             fresh == (g[node] \cap allowed) \ visited
         IN Bfs(g, allowed, Tail(queue) \o Ones(fresh), visited \cup fresh,
                n_visited + 1)

\* Mutant of BfsTrace: a node is marked visited when it is popped, not when
\* it is pushed.
RECURSIVE BfsTrace_MarkedOnPop(_, _, _, _, _, _)
BfsTrace_MarkedOnPop(g, allowed, queue, visited, n_visited, pushed) ==
    IF queue = <<>> THEN [n_visited |-> n_visited, pushed |-> pushed]
    ELSE LET node == Head(queue)
             seen == visited \cup {node}
             fresh == (g[node] \cap allowed) \ seen
         IN BfsTrace_MarkedOnPop(g, allowed, Tail(queue) \o Ones(fresh), seen,
                                 n_visited + 1, pushed \o Ones(fresh))

\* The while-let loop of a traversal as in Bfs, with the nodes pushed on the
\* queue recorded in the order of the push_back calls; returns n_visited
\* and the nodes pushed.
RECURSIVE BfsTrace(_, _, _, _, _, _)
BfsTrace(g, allowed, queue, visited, n_visited, pushed) ==
    IF queue = <<>> THEN [n_visited |-> n_visited, pushed |-> pushed]
    ELSE LET node == Head(queue)
             fresh == (g[node] \cap allowed) \ visited
         IN BfsTrace(g, allowed, Tail(queue) \o Ones(fresh), visited \cup fresh,
                     n_visited + 1, pushed \o Ones(fresh))

\* Mutant of ConnectedFrom: the start node is counted twice.
ConnectedFrom_StartCountedTwice(g, start_node, n) ==
    IF Bfs(g, NodeIds, <<start_node>>, {start_node}, 1) = n
    THEN OK
    ELSE Err(MsgNotConnected, <<>>)

\* validate_connected_graph from a given start node.
ConnectedFrom(g, start_node, n) ==
    IF Bfs(g, NodeIds, <<start_node>>, {start_node}, 0) = n
    THEN OK
    ELSE Err(MsgNotConnected, <<>>)

\* Mutant of validate_connected_graph: without the early return for
\* n_nodes = 0, no start node being found.
validate_connected_graph_NoEarlyReturn(g, ids, n) ==
    IF ids = {} THEN Err(MsgNotConnected, <<>>)
    ELSE ConnectedFrom(g, Head(Ones(ids)), n)

validate_connected_graph(g, ids, n) ==
    IF n = 0 THEN OK
    ELSE ConnectedFrom(g, Head(Ones(ids)), n)

\* Mutant of validate_edges_clients_servers: the traversal does not skip the
\* neighbors that are not drones.
validate_edges_clients_servers_NoSkip(g, drones, n, nd) ==
    IF n = 0 \/ nd = 0 THEN OK
    ELSE LET start_drone == Head(Ones(drones)) IN
         IF Bfs(g, NodeIds, <<start_drone>>, {start_drone}, 0) = nd
         THEN OK
         ELSE Err(MsgNotOnEdge, <<>>)

\* Mutant of validate_edges_clients_servers: the traversal is not made.
validate_edges_clients_servers_NoTraversal(g, drones, n, nd) == OK

validate_edges_clients_servers(g, drones, n, nd) ==
    IF n = 0 \/ nd = 0 THEN OK
    ELSE LET start_drone == Head(Ones(drones)) IN
         IF Bfs(g, drones, <<start_drone>>, {start_drone}, 0) = nd
         THEN OK
         ELSE Err(MsgNotOnEdge, <<>>)

----------------------------------------------------------------------------
\* The Configs validate_config is run on

Seqs(S, n) == UNION {[1 .. k -> S] : k \in 0 .. n}
InjSeqs(S, n) == {q \in Seqs(S, n) : \A a, b \in DOMAIN q : q[a] = q[b] => a = b}

DroneEntries(ids, lists, pdrs) ==
    [id : ids, connected_node_ids : lists, pdr : pdrs]
EdgeEntries(ids, lists) ==
    [id : ids, connected_drone_ids : lists]

Splits(n) == {s \in (0 .. n) \X (0 .. n) \X (0 .. n) : s[1] + s[2] + s[3] = n}

\* Every Config of n entries with drones from D and clients/servers from E.
ConfigsOf(n, D, E) ==
    UNION {[drone : [1 .. s[1] -> D], client : [1 .. s[2] -> E],
            server : [1 .. s[3] -> E]] : s \in Splits(n)}

EntryIds(cfg) ==
    <<[i \in DOMAIN cfg.drone |-> cfg.drone[i].id],
      [i \in DOMAIN cfg.client |-> cfg.client[i].id],
      [i \in DOMAIN cfg.server |-> cfg.server[i].id]>>

\* The ids of all entries in declaration order: drones, clients, servers.
AllIds(cfg) == EntryIds(cfg)[1] \o EntryIds(cfg)[2] \o EntryIds(cfg)[3]

\* One entry of any kind, any pdr, neighbor lists up to one past ClientMaxDegree.
SingleConfigs ==
    ConfigsOf(1, DroneEntries(GenIds, Seqs(GenIds, ClientMaxDegree + 1), PdrVals),
                 EdgeEntries(GenIds, Seqs(GenIds, ClientMaxDegree + 1)))

\* Up to two entries with ids 0 or 1 and any lists up to ClientMaxDegree.
PairConfigs ==
    UNION {ConfigsOf(n, DroneEntries(0 .. 1, Seqs(GenIds, ClientMaxDegree),
                                     {PdrScale}),
                        EdgeEntries(0 .. 1, Seqs(GenIds, ClientMaxDegree)))
           : n \in 0 .. 2}

\* Three entries with any ids and a neighbor list that is empty or <<0>>.
TripleConfigs ==
    ConfigsOf(3, DroneEntries(GenIds, Seqs({0}, 1), {0}),
                 EdgeEntries(GenIds, Seqs({0}, 1)))

\* Three drones with distinct ids whose lists have no self-loop and no
\* repetition: every directed graph on three declared drones, declared by
\* ascending or by descending id.
GraphConfigs ==
    LET D == {e \in DroneEntries(GenIds, InjSeqs(GenIds, ClientMaxDegree), {0}) :
                  e.id \notin Range(e.connected_node_ids)}
    IN {[drone |-> d, client |-> <<>>, server |-> <<>>] :
            d \in {q \in [1 .. 3 -> D] :
                      \/ (q[1].id < q[2].id /\ q[2].id < q[3].id)
                      \/ (q[1].id > q[2].id /\ q[2].id > q[3].id)}}

\* Four drones with any ids and no neighbors: up to two ids declared twice.
QuadConfigs ==
    {[drone |-> d, client |-> <<>>, server |-> <<>>] :
        d \in [1 .. 4 -> DroneEntries(GenIds, {<<>>}, {0})]}

\* The topology drones {4-6, 4-7, 6-7}, client {1-4}, server {5-4, 5-6}.
E2EConfig ==
    [drone |-> <<[id |-> 4, connected_node_ids |-> <<6, 7, 1, 5>>, pdr |-> 0],
                 [id |-> 6, connected_node_ids |-> <<4, 7, 5>>, pdr |-> 1],
                 [id |-> 7, connected_node_ids |-> <<4, 6>>, pdr |-> PdrScale]>>,
     client |-> <<[id |-> 1, connected_drone_ids |-> <<4>>]>>,
     server |-> <<[id |-> 5, connected_drone_ids |-> <<4, 6>>]>>]

\* `list` without its k-th element.
RemoveAt(list, k) ==
    [i \in 1 .. (Len(list) - 1) |-> IF i < k THEN list[i] ELSE list[i + 1]]

\* E2EConfig and each Config got from it by deleting one entry of one
\* drone's neighbor list (among them: the reverse edge 7 -> 4).
E2EConfigs ==
    {E2EConfig} \cup
    {[E2EConfig EXCEPT !.drone[d].connected_node_ids = RemoveAt(@, k)] :
        <<d, k>> \in {p \in (1 .. 3) \X (1 .. 4) :
                        p[2] <= Len(E2EConfig.drone[p[1]].connected_node_ids)}}

\* One entry per id of 0 .. MaxSymId, declared in ascending id order, with
\* the sorted adjacency lists of any undirected graph and with any kinds,
\* the nodes of ids 2 and above being drones.
SymIds == 0 .. MaxSymId
SymPairs == {p \in SymIds \X SymIds : p[1] < p[2]}
SymConfig(kind, edges) ==
    LET adj(n) == Ones({m \in SymIds : <<n, m>> \in edges \/ <<m, n>> \in edges})
        of(k) == Ones({n \in SymIds : kind[n] = k})
    IN [drone |-> [i \in DOMAIN of("drone") |->
                     [id |-> of("drone")[i],
                      connected_node_ids |-> adj(of("drone")[i]),
                      pdr |-> 1]],
        client |-> [i \in DOMAIN of("client") |->
                     [id |-> of("client")[i],
                      connected_drone_ids |-> adj(of("client")[i])]],
        server |-> [i \in DOMAIN of("server") |->
                     [id |-> of("server")[i],
                      connected_drone_ids |-> adj(of("server")[i])]]]
SymmetricConfigs ==
    {SymConfig(kind, edges) :
        kind \in {k \in [SymIds -> {"drone", "client", "server"}] :
                     \A n \in SymIds : n >= 2 => k[n] = "drone"},
        edges \in SUBSET SymPairs}

Configs == SingleConfigs \cup PairConfigs \cup TripleConfigs \cup QuadConfigs
           \cup GraphConfigs \cup E2EConfigs \cup SymmetricConfigs

----------------------------------------------------------------------------
\* validate_config, one action per stage

EmptyGraph == [n \in NodeIds |-> {}]

\* The local variables of network_init as first bound (init.rs 129-155).
NoNodeType == [type |-> "None"]
NoCommand == [enum |-> "None"]
NoSender == [some |-> FALSE]
EmptyTable == [n \in NodeIds |-> 0]
Constructed ==
    /\ topology = [n \in NodeIds |-> [node_type |-> NoNodeType, neighbors |-> {}]]
    /\ senders = [n \in NodeIds |-> NoCommand]
    /\ packet_send_map = [n \in NodeIds |-> NoSender]
    /\ distros = [drone |-> [k \in 0 .. (MAX_IMPL - 1) |-> 0],
                  client |-> [k \in 0 .. (MAX_CLIENT_TYPES - 1) |-> 0],
                  server |-> [k \in 0 .. (MAX_SERVER_TYPES - 1) |-> 0]]
    /\ indexes = [drone |-> 0, client |-> 0, server |-> 0]
    /\ list_gui_channels = <<>>
    /\ threads = <<>>
    /\ command_channels = <<>>
    /\ sent = <<>>

Init ==
    /\ config \in Configs
    /\ pc = "drones"
    /\ node_ids = {}
    /\ drone_ids = {}
    /\ n_nodes = 0
    /\ n_drones = 0
    /\ graph = EmptyGraph
    /\ result = Pending
    /\ file = "parsed"
    /\ ipc = "idle"
    /\ i_node = 1
    /\ i_nbr = 1
    /\ Constructed

\* Leave validate_config with r when r is an error, go on to `next` otherwise.
Return(r, next) ==
    IF r # OK THEN pc' = "done" /\ result' = r
    ELSE pc' = next /\ result' = result

ValidateDrones ==
    /\ pc = "drones"
    /\ LET r == DroneLoop(config.drone, 1, node_ids, n_nodes) IN
        /\ node_ids' = r.ids
        /\ n_nodes' = r.n
        /\ drone_ids' = IF r.err = OK THEN r.ids ELSE drone_ids
        /\ n_drones' = IF r.err = OK THEN r.n ELSE n_drones
        /\ Return(r.err, "clients")
    /\ UNCHANGED <<config, graph>>
    /\ UNCHANGED ivars

ValidateClients ==
    /\ pc = "clients"
    /\ LET r == ClientLoop(config.client, 1, node_ids, n_nodes) IN
        /\ node_ids' = r.ids
        /\ n_nodes' = r.n
        /\ Return(r.err, "servers")
    /\ UNCHANGED <<config, drone_ids, n_drones, graph>>
    /\ UNCHANGED ivars

ValidateServers ==
    /\ pc = "servers"
    /\ LET r == ServerLoop(config.server, 1, node_ids, n_nodes) IN
        /\ node_ids' = r.ids
        /\ n_nodes' = r.n
        /\ IF r.err = OK /\ r.n # Len(config.drone) + Len(config.client)
                                   + Len(config.server)
           THEN Return(Err(MsgAssert, <<>>), "kinds")
           ELSE Return(r.err, "kinds")
    /\ UNCHANGED <<config, drone_ids, n_drones, graph>>
    /\ UNCHANGED ivars

ValidateAllNeighborsAreDrones ==
    /\ pc = "kinds"
    /\ Return(validate_all_neighbors_are_drones(config, drone_ids), "graph")
    /\ UNCHANGED <<config, node_ids, drone_ids, n_nodes, n_drones, graph>>
    /\ UNCHANGED ivars

ComputeInitGraph ==
    /\ pc = "graph"
    /\ graph' = compute_init_graph(config)
    /\ pc' = "bidirectional"
    /\ UNCHANGED <<config, node_ids, drone_ids, n_nodes, n_drones, result>>
    /\ UNCHANGED ivars

ValidateBidirectionalGraph ==
    /\ pc = "bidirectional"
    /\ Return(validate_bidirectional_graph(graph, node_ids), "connected")
    /\ UNCHANGED <<config, node_ids, drone_ids, n_nodes, n_drones, graph>>
    /\ UNCHANGED ivars

ValidateConnectedGraph ==
    /\ pc = "connected"
    /\ Return(validate_connected_graph(graph, node_ids, n_nodes), "edges")
    /\ UNCHANGED <<config, node_ids, drone_ids, n_nodes, n_drones, graph>>
    /\ UNCHANGED ivars

ValidateEdgesClientsServers ==
    /\ pc = "edges"
    /\ result' = validate_edges_clients_servers(graph, drone_ids, n_nodes,
                                                n_drones)
    /\ pc' = "done"
    /\ UNCHANGED <<config, node_ids, drone_ids, n_nodes, n_drones, graph>>
    /\ UNCHANGED ivars

Next ==
    \/ ValidateDrones
    \/ ValidateClients
    \/ ValidateServers
    \/ ValidateAllNeighborsAreDrones
    \/ ComputeInitGraph
    \/ ValidateBidirectionalGraph
    \/ ValidateConnectedGraph
    \/ ValidateEdgesClientsServers

Spec == Init /\ [][Next]_vars

----------------------------------------------------------------------------
\* validate_config called again on the same Config

\* Mutant of ValidateAgain: the set of the ids seen and their count outlive
\* the call.
ValidateAgain_KeepsNodeIds ==
    /\ pc = "done"
    /\ pc' = "drones"
    /\ drone_ids' = {}
    /\ n_drones' = 0
    /\ graph' = EmptyGraph
    /\ UNCHANGED <<config, node_ids, n_nodes, result>>
    /\ UNCHANGED ivars

\* The caller, holding the outcome of a call of validate_config, calls it
\* again on the same &Config: the locals are created anew.
ValidateAgain ==
    /\ pc = "done"
    /\ pc' = "drones"
    /\ node_ids' = {}
    /\ drone_ids' = {}
    /\ n_nodes' = 0
    /\ n_drones' = 0
    /\ graph' = EmptyGraph
    /\ UNCHANGED <<config, result>>
    /\ UNCHANGED ivars

\* One entry, up to two entries, and the topology of E2EConfig with one
\* edge less.
TwiceConfigs == SingleConfigs \cup PairConfigs \cup E2EConfigs

TwiceInit ==
    /\ Init
    /\ config \in TwiceConfigs

TwiceNext ==
    \/ ValidateDrones
    \/ ValidateClients
    \/ ValidateServers
    \/ ValidateAllNeighborsAreDrones
    \/ ComputeInitGraph
    \/ ValidateBidirectionalGraph
    \/ ValidateConnectedGraph
    \/ ValidateEdgesClientsServers
    \/ ValidateAgain

TwiceSpec == TwiceInit /\ [][TwiceNext]_vars

----------------------------------------------------------------------------
\* validate_config and network_validate as functions

validate_config(cfg) ==
    LET d == DroneLoop(cfg.drone, 1, {}, 0) IN
    IF d.err # OK THEN d.err ELSE
    LET c == ClientLoop(cfg.client, 1, d.ids, d.n) IN
    IF c.err # OK THEN c.err ELSE
    LET v == ServerLoop(cfg.server, 1, c.ids, c.n) IN
    IF v.err # OK THEN v.err ELSE
    IF v.n # Len(cfg.drone) + Len(cfg.client) + Len(cfg.server)
    THEN Err(MsgAssert, <<>>) ELSE
    LET k == validate_all_neighbors_are_drones(cfg, d.ids) IN
    IF k # OK THEN k ELSE
    LET g == compute_init_graph(cfg)
        b == validate_bidirectional_graph(g, v.ids)
    IN
    IF b # OK THEN b ELSE
    LET t == validate_connected_graph(g, v.ids, v.n) IN
    IF t # OK THEN t
    ELSE validate_edges_clients_servers(g, d.ids, v.n, d.n)

MsgUnableToRead == "Unable to read configuration file"
MsgFailedToDeserialize == "Failed to deserialize TOML: {}"

\* Mutant of network_validate: validate_config is not called.
network_validate_Unchecked(f, cfg) ==
    IF f = "unreadable" THEN Err(MsgUnableToRead, <<>>)
    ELSE IF f = "malformed" THEN Err(MsgFailedToDeserialize, <<>>)
    ELSE OK

\* f is what is found at file_path; cfg is the Config a well-formed file
\* deserializes to.  OK stands for Ok(config).
network_validate(f, cfg) ==
    IF f = "unreadable" THEN Err(MsgUnableToRead, <<>>)
    ELSE IF f = "malformed" THEN Err(MsgFailedToDeserialize, <<>>)
    ELSE validate_config(cfg)

----------------------------------------------------------------------------
\* network_init: positions

\* Mutant of Phases: the drones are wired before the servers are spawned.
Phases_WireDronesBeforeServers ==
    <<"spawn_drones", "spawn_clients", "wire_drones", "spawn_servers",
      "wire_clients", "wire_servers", "assembly">>

\* The loops of network_init in program order, then the final assembly.
Phases ==
    <<"spawn_drones", "spawn_clients", "spawn_servers",
      "wire_drones", "wire_clients", "wire_servers", "assembly">>
WirePhases == {"wire_drones", "wire_clients", "wire_servers"}

\* The entries phase k loops over, as records [id, nbrs], in declaration order.
PhaseEntries(cfg, k) ==
    IF Phases[k] \in {"spawn_drones", "wire_drones"}
    THEN [i \in DOMAIN cfg.drone |->
            [id |-> cfg.drone[i].id, nbrs |-> cfg.drone[i].connected_node_ids]]
    ELSE IF Phases[k] \in {"spawn_clients", "wire_clients"}
    THEN [i \in DOMAIN cfg.client |->
            [id |-> cfg.client[i].id, nbrs |-> cfg.client[i].connected_drone_ids]]
    ELSE IF Phases[k] \in {"spawn_servers", "wire_servers"}
    THEN [i \in DOMAIN cfg.server |->
            [id |-> cfg.server[i].id, nbrs |-> cfg.server[i].connected_drone_ids]]
    ELSE <<>>

\* The next loop body to run from position (phase k, entry i, neighbor j):
\* loops whose iterator is exhausted are left.
RECURSIVE Settle(_, _, _, _)
Settle(cfg, k, i, j) ==
    IF Phases[k] = "assembly" THEN <<k, 1, 1>>
    ELSE IF i > Len(PhaseEntries(cfg, k)) THEN Settle(cfg, k + 1, 1, 1)
    ELSE IF Phases[k] \in WirePhases /\ j > Len(PhaseEntries(cfg, k)[i].nbrs)
    THEN Settle(cfg, k, i + 1, 1)
    ELSE <<k, i, j>>

PhaseIndex(name) == CHOOSE k \in DOMAIN Phases : Phases[k] = name

\* Go on to the loop body after (phase, i, j).
GoOn(phase, i, j) ==
    LET p == Settle(config, PhaseIndex(phase), i, j)
    IN /\ ipc' = Phases[p[1]]
       /\ i_node' = p[2]
       /\ i_nbr' = p[3]

----------------------------------------------------------------------------
\* network_init: spawn loops

\* The thread spawned for an entry: the receive ends moved into it are those
\* of the channels created in the same loop body (channel c is the one
\* created for the c-th spawned node); a drone is built with HashMap::new()
\* as its table of packet senders.
\* Mutant of NewThread: every thread is given the receive ends of the
\* channels created first.
NewThread_SharedReceiver(kind, id, c) ==
    [kind |-> kind, id |-> id, command_rx |-> 1, packet_rx |-> 1,
     alive |-> TRUE, ran |-> FALSE, table |-> EmptyTable]

\* Mutant of NewThread: the node is built with a table that holds the send
\* end of its own packet channel.
NewThread_OwnSenderInTable(kind, id, c) ==
    [kind |-> kind, id |-> id, command_rx |-> c, packet_rx |-> c,
     alive |-> TRUE, ran |-> FALSE, table |-> [EmptyTable EXCEPT ![id] = c]]

NewThread(kind, id, c) ==
    [kind |-> kind, id |-> id, command_rx |-> c, packet_rx |-> c,
     alive |-> TRUE, ran |-> FALSE, table |-> EmptyTable]
NewChannel == [open |-> TRUE, queue |-> <<>>]

\* Mutant of SpawnDrone: index_drone_impl advances by two.
SpawnDrone_SkipsAVariant ==
    /\ ipc = "spawn_drones"
    /\ LET drone == config.drone[i_node]
           c == Len(threads) + 1
           drone_impl == indexes.drone
       IN /\ senders' = [senders EXCEPT
                            ![drone.id] = [enum |-> "DroneCommand", chan |-> c]]
          /\ packet_send_map' = [packet_send_map EXCEPT
                                    ![drone.id] = [some |-> TRUE, chan |-> c]]
          /\ distros' = [distros EXCEPT !.drone[drone_impl] = @ + 1]
          /\ indexes' = [indexes EXCEPT !.drone = (@ + 2) % MAX_IMPL]
          /\ topology' = [topology EXCEPT ![drone.id].node_type =
                             [type |-> "Drone", pdr |-> drone.pdr,
                              impl |-> drone_impl]]
          /\ threads' = Append(threads, NewThread("drone", drone.id, c))
          /\ command_channels' = Append(command_channels, NewChannel)
    /\ GoOn("spawn_drones", i_node + 1, 1)
    /\ UNCHANGED <<config, vvars, file, list_gui_channels, sent>>

SpawnDrone ==
    /\ ipc = "spawn_drones"
    /\ LET drone == config.drone[i_node]
           c == Len(threads) + 1
           drone_impl == indexes.drone
       IN /\ senders' = [senders EXCEPT
                            ![drone.id] = [enum |-> "DroneCommand", chan |-> c]]
          /\ packet_send_map' = [packet_send_map EXCEPT
                                    ![drone.id] = [some |-> TRUE, chan |-> c]]
          /\ distros' = [distros EXCEPT !.drone[drone_impl] = @ + 1]
          /\ indexes' = [indexes EXCEPT !.drone = (@ + 1) % MAX_IMPL]
          /\ topology' = [topology EXCEPT ![drone.id].node_type =
                             [type |-> "Drone", pdr |-> drone.pdr,
                              impl |-> drone_impl]]
          /\ threads' = Append(threads, NewThread("drone", drone.id, c))
          /\ command_channels' = Append(command_channels, NewChannel)
    /\ GoOn("spawn_drones", i_node + 1, 1)
    /\ UNCHANGED <<config, vvars, file, list_gui_channels, sent>>

\* Mutant of SpawnClient: the list of GUI channels records the type of the
\* next client.
SpawnClient_RecordsNextType ==
    /\ ipc = "spawn_clients"
    /\ LET client == config.client[i_node]
           c == Len(threads) + 1
           client_type == indexes.client
       IN /\ senders' = [senders EXCEPT
                            ![client.id] = [enum |-> "ClientCommand", chan |-> c]]
          /\ packet_send_map' = [packet_send_map EXCEPT
                                    ![client.id] = [some |-> TRUE, chan |-> c]]
          /\ distros' = [distros EXCEPT !.client[client_type] = @ + 1]
          /\ indexes' = [indexes EXCEPT !.client = (@ + 1) % MAX_CLIENT_TYPES]
          /\ topology' = [topology EXCEPT ![client.id].node_type =
                             [type |-> "Client", client_type |-> client_type]]
          /\ list_gui_channels' =
                Append(list_gui_channels,
                       [id |-> client.id,
                        client_type |-> (client_type + 1) % MAX_CLIENT_TYPES,
                        gui |-> c])
          /\ threads' = Append(threads, NewThread("client", client.id, c))
          /\ command_channels' = Append(command_channels, NewChannel)
    /\ GoOn("spawn_clients", i_node + 1, 1)
    /\ UNCHANGED <<config, vvars, file, sent>>

\* Mutant of SpawnClient: the client's packet-send end is not stored.
SpawnClient_NoPacketSender ==
    /\ ipc = "spawn_clients"
    /\ LET client == config.client[i_node]
           c == Len(threads) + 1
           client_type == indexes.client
       IN /\ senders' = [senders EXCEPT
                            ![client.id] = [enum |-> "ClientCommand", chan |-> c]]
          /\ distros' = [distros EXCEPT !.client[client_type] = @ + 1]
          /\ indexes' = [indexes EXCEPT !.client = (@ + 1) % MAX_CLIENT_TYPES]
          /\ topology' = [topology EXCEPT ![client.id].node_type =
                             [type |-> "Client", client_type |-> client_type]]
          /\ list_gui_channels' =
                Append(list_gui_channels,
                       [id |-> client.id, client_type |-> client_type, gui |-> c])
          /\ threads' = Append(threads, NewThread("client", client.id, c))
          /\ command_channels' = Append(command_channels, NewChannel)
    /\ GoOn("spawn_clients", i_node + 1, 1)
    /\ UNCHANGED <<config, vvars, file, packet_send_map, sent>>

SpawnClient ==
    /\ ipc = "spawn_clients"
    /\ LET client == config.client[i_node]
           c == Len(threads) + 1
           client_type == indexes.client
       IN /\ senders' = [senders EXCEPT
                            ![client.id] = [enum |-> "ClientCommand", chan |-> c]]
          /\ packet_send_map' = [packet_send_map EXCEPT
                                    ![client.id] = [some |-> TRUE, chan |-> c]]
          /\ distros' = [distros EXCEPT !.client[client_type] = @ + 1]
          /\ indexes' = [indexes EXCEPT !.client = (@ + 1) % MAX_CLIENT_TYPES]
          /\ topology' = [topology EXCEPT ![client.id].node_type =
                             [type |-> "Client", client_type |-> client_type]]
          /\ list_gui_channels' =
                Append(list_gui_channels,
                       [id |-> client.id, client_type |-> client_type, gui |-> c])
          /\ threads' = Append(threads, NewThread("client", client.id, c))
          /\ command_channels' = Append(command_channels, NewChannel)
    /\ GoOn("spawn_clients", i_node + 1, 1)
    /\ UNCHANGED <<config, vvars, file, sent>>

\* Mutant of SpawnServer: the server's type is not counted.
SpawnServer_NotCounted ==
    /\ ipc = "spawn_servers"
    /\ LET server == config.server[i_node]
           c == Len(threads) + 1
           server_type == indexes.server
       IN /\ senders' = [senders EXCEPT
                            ![server.id] = [enum |-> "ServerCommand", chan |-> c]]
          /\ packet_send_map' = [packet_send_map EXCEPT
                                    ![server.id] = [some |-> TRUE, chan |-> c]]
          /\ indexes' = [indexes EXCEPT !.server = (@ + 1) % MAX_SERVER_TYPES]
          /\ topology' = [topology EXCEPT ![server.id].node_type =
                             [type |-> "Server", server_type |-> server_type]]
          /\ threads' = Append(threads, NewThread("server", server.id, c))
          /\ command_channels' = Append(command_channels, NewChannel)
    /\ GoOn("spawn_servers", i_node + 1, 1)
    /\ UNCHANGED <<config, vvars, file, distros, list_gui_channels, sent>>

\* Mutant of SpawnServer: the server's packet-send end is not stored.
SpawnServer_NoPacketSender ==
    /\ ipc = "spawn_servers"
    /\ LET server == config.server[i_node]
           c == Len(threads) + 1
           server_type == indexes.server
       IN /\ senders' = [senders EXCEPT
                            ![server.id] = [enum |-> "ServerCommand", chan |-> c]]
          /\ distros' = [distros EXCEPT !.server[server_type] = @ + 1]
          /\ indexes' = [indexes EXCEPT !.server = (@ + 1) % MAX_SERVER_TYPES]
          /\ topology' = [topology EXCEPT ![server.id].node_type =
                             [type |-> "Server", server_type |-> server_type]]
          /\ threads' = Append(threads, NewThread("server", server.id, c))
          /\ command_channels' = Append(command_channels, NewChannel)
    /\ GoOn("spawn_servers", i_node + 1, 1)
    /\ UNCHANGED <<config, vvars, file, packet_send_map, list_gui_channels,
                   sent>>

SpawnServer ==
    /\ ipc = "spawn_servers"
    /\ LET server == config.server[i_node]
           c == Len(threads) + 1
           server_type == indexes.server
       IN /\ senders' = [senders EXCEPT
                            ![server.id] = [enum |-> "ServerCommand", chan |-> c]]
          /\ packet_send_map' = [packet_send_map EXCEPT
                                    ![server.id] = [some |-> TRUE, chan |-> c]]
          /\ distros' = [distros EXCEPT !.server[server_type] = @ + 1]
          /\ indexes' = [indexes EXCEPT !.server = (@ + 1) % MAX_SERVER_TYPES]
          /\ topology' = [topology EXCEPT ![server.id].node_type =
                             [type |-> "Server", server_type |-> server_type]]
          /\ threads' = Append(threads, NewThread("server", server.id, c))
          /\ command_channels' = Append(command_channels, NewChannel)
    /\ GoOn("spawn_servers", i_node + 1, 1)
    /\ UNCHANGED <<config, vvars, file, list_gui_channels, sent>>

----------------------------------------------------------------------------
\* network_init: wiring loops

\* Mutant of InsertNeighbor: the neighbor set holds the last neighbor only.
InsertNeighbor_LastOnly(id, neighbor) ==
    [topology EXCEPT ![id].neighbors = {neighbor}]

\* topology[id].1.insert(neighbor)
InsertNeighbor(id, neighbor) ==
    [topology EXCEPT ![id].neighbors = @ \cup {neighbor}]

\* Mutant of AddNeighborCommand: the send end is the one stored last, not
\* the neighbor's.
AddNeighborCommand_LastSender(enum, variant, neighbor) ==
    [enum |-> enum, variant |-> variant, id |-> neighbor,
     sender |-> Len(threads)]

\* AddSender / AddDrone (neighbor, packet_send_map[neighbor] unwrapped and cloned)
AddNeighborCommand(enum, variant, neighbor) ==
    [enum |-> enum, variant |-> variant, id |-> neighbor,
     sender |-> packet_send_map[neighbor].chan]

\* Mutant of Wire: network_init stops at a send that fails.
Wire_AbortOnSendError(phase, enum, variant, id, neighbor) ==
    /\ topology' = InsertNeighbor(id, neighbor)
    /\ IF senders[id].enum # enum
       THEN /\ GoOn(phase, i_node, i_nbr + 1)
            /\ UNCHANGED <<command_channels, sent>>
       ELSE IF ~packet_send_map[neighbor].some
       THEN /\ ipc' = "panicked"
            /\ UNCHANGED <<i_node, i_nbr, command_channels, sent>>
       ELSE LET c == senders[id].chan
                cmd == AddNeighborCommand(enum, variant, neighbor)
            IN /\ command_channels' =
                     IF command_channels[c].open
                     THEN [command_channels EXCEPT ![c].queue = Append(@, cmd)]
                     ELSE command_channels
               /\ sent' = Append(sent, [chan |-> c, cmd |-> cmd,
                                        ok |-> command_channels[c].open])
               /\ IF command_channels[c].open
                  THEN GoOn(phase, i_node, i_nbr + 1)
                  ELSE ipc' = "panicked" /\ UNCHANGED <<i_node, i_nbr>>
    /\ UNCHANGED <<config, vvars, file, senders, packet_send_map, distros,
                   indexes, list_gui_channels, threads>>

\* Mutant of Wire: the command channel holds one command, and a send waits
\* while it is full.
Wire_BoundedChannel(phase, enum, variant, id, neighbor) ==
    /\ topology' = InsertNeighbor(id, neighbor)
    /\ IF senders[id].enum # enum
       THEN /\ GoOn(phase, i_node, i_nbr + 1)
            /\ UNCHANGED <<command_channels, sent>>
       ELSE IF ~packet_send_map[neighbor].some
       THEN /\ ipc' = "panicked"
            /\ UNCHANGED <<i_node, i_nbr, command_channels, sent>>
       ELSE LET c == senders[id].chan
                cmd == AddNeighborCommand(enum, variant, neighbor)
            IN /\ command_channels[c].open => command_channels[c].queue = <<>>
               /\ command_channels' =
                     IF command_channels[c].open
                     THEN [command_channels EXCEPT ![c].queue = Append(@, cmd)]
                     ELSE command_channels
               /\ sent' = Append(sent, [chan |-> c, cmd |-> cmd,
                                        ok |-> command_channels[c].open])
               /\ GoOn(phase, i_node, i_nbr + 1)
    /\ UNCHANGED <<config, vvars, file, senders, packet_send_map, distros,
                   indexes, list_gui_channels, threads>>

\* Mutant of Wire: a neighbor without a packet-send end is passed over.
Wire_SkipsMissingSender(phase, enum, variant, id, neighbor) ==
    /\ topology' = InsertNeighbor(id, neighbor)
    /\ IF senders[id].enum # enum \/ ~packet_send_map[neighbor].some
       THEN /\ GoOn(phase, i_node, i_nbr + 1)
            /\ UNCHANGED <<command_channels, sent>>
       ELSE LET c == senders[id].chan
                cmd == AddNeighborCommand(enum, variant, neighbor)
            IN /\ command_channels' =
                     IF command_channels[c].open
                     THEN [command_channels EXCEPT ![c].queue = Append(@, cmd)]
                     ELSE command_channels
               /\ sent' = Append(sent, [chan |-> c, cmd |-> cmd,
                                        ok |-> command_channels[c].open])
               /\ GoOn(phase, i_node, i_nbr + 1)
    /\ UNCHANGED <<config, vvars, file, senders, packet_send_map, distros,
                   indexes, list_gui_channels, threads>>

\* Mutant of Wire: no command is sent.
Wire_NoSend(phase, enum, variant, id, neighbor) ==
    /\ topology' = InsertNeighbor(id, neighbor)
    /\ GoOn(phase, i_node, i_nbr + 1)
    /\ UNCHANGED <<config, vvars, file, senders, packet_send_map, distros,
                   indexes, list_gui_channels, threads, command_channels, sent>>

\* One body of a wiring loop's inner loop, for node `id` and `neighbor`: the
\* neighbor is inserted into the topology; when senders[id] is of the
\* loop's variant `enum`, the command is built, which panics on the unwrap
\* of an empty packet_send_map slot, and sent, the outcome of the send being
\* dropped (let _ =).  A send fails when the receive end has been dropped.
Wire(phase, enum, variant, id, neighbor) ==
    /\ topology' = InsertNeighbor(id, neighbor)
    /\ IF senders[id].enum # enum
       THEN /\ GoOn(phase, i_node, i_nbr + 1)
            /\ UNCHANGED <<command_channels, sent>>
       ELSE IF ~packet_send_map[neighbor].some
       THEN /\ ipc' = "panicked"
            /\ UNCHANGED <<i_node, i_nbr, command_channels, sent>>
       ELSE LET c == senders[id].chan
                cmd == AddNeighborCommand(enum, variant, neighbor)
            IN /\ command_channels' =
                     IF command_channels[c].open
                     THEN [command_channels EXCEPT ![c].queue = Append(@, cmd)]
                     ELSE command_channels
               /\ sent' = Append(sent, [chan |-> c, cmd |-> cmd,
                                        ok |-> command_channels[c].open])
               /\ GoOn(phase, i_node, i_nbr + 1)
    /\ UNCHANGED <<config, vvars, file, senders, packet_send_map, distros,
                   indexes, list_gui_channels, threads>>

WireDrone ==
    /\ ipc = "wire_drones"
    /\ Wire("wire_drones", "DroneCommand", "AddSender", config.drone[i_node].id,
            config.drone[i_node].connected_node_ids[i_nbr])

WireClient ==
    /\ ipc = "wire_clients"
    /\ Wire("wire_clients", "ClientCommand", "AddDrone", config.client[i_node].id,
            config.client[i_node].connected_drone_ids[i_nbr])

\* Mutant of WireServer: the wiring loop of the servers does nothing.
WireServer_NothingWired ==
    /\ ipc = "wire_servers"
    /\ GoOn("wire_servers", i_node, i_nbr + 1)
    /\ UNCHANGED <<config, vvars, file, topology, senders, packet_send_map,
                   distros, indexes, list_gui_channels, threads,
                   command_channels, sent>>

WireServer ==
    /\ ipc = "wire_servers"
    /\ Wire("wire_servers", "ServerCommand", "AddDrone", config.server[i_node].id,
            config.server[i_node].connected_drone_ids[i_nbr])

\* InitData::new .. NetworkInitData::new: the tables are moved into the
\* result, which is returned.
Assemble ==
    /\ ipc = "assembly"
    /\ ipc' = "returned"
    /\ UNCHANGED <<config, vvars, file, i_node, i_nbr, topology, senders,
                   packet_send_map, distros, indexes, list_gui_channels,
                   threads, command_channels, sent>>

----------------------------------------------------------------------------
\* The node threads

\* A thread takes the next command off its command channel and installs
\* the send end it carries under the id it names.
ThreadAddsNeighbor(c) ==
    /\ threads[c].alive
    /\ command_channels[c].queue # <<>>
    /\ LET cmd == Head(command_channels[c].queue)
       IN threads' = [threads EXCEPT ![c].table[cmd.id] = cmd.sender]
    /\ command_channels' = [command_channels EXCEPT ![c].queue = Tail(@)]
    /\ UNCHANGED <<config, vvars, file, ipc, i_node, i_nbr, topology, senders,
                   packet_send_map, distros, indexes, list_gui_channels, sent>>

\* Mutant of ThreadRuns: a thread does not run before network_init is past
\* the wiring loops.
ThreadRuns_AfterWiring(c) ==
    /\ ipc \in {"assembly", "returned"}
    /\ threads[c].alive
    /\ ~threads[c].ran
    /\ threads' = [threads EXCEPT ![c].ran = TRUE]
    /\ UNCHANGED <<config, vvars, file, ipc, i_node, i_nbr, topology, senders,
                   packet_send_map, distros, indexes, list_gui_channels,
                   command_channels, sent>>

\* A thread takes a step of its run loop that handles no command.
ThreadRuns(c) ==
    /\ threads[c].alive
    /\ ~threads[c].ran
    /\ threads' = [threads EXCEPT ![c].ran = TRUE]
    /\ UNCHANGED <<config, vvars, file, ipc, i_node, i_nbr, topology, senders,
                   packet_send_map, distros, indexes, list_gui_channels,
                   command_channels, sent>>

\* A thread ends, dropping the receive ends it holds.
ThreadEnds(c) ==
    /\ threads[c].alive
    /\ threads' = [threads EXCEPT ![c].alive = FALSE]
    /\ command_channels' = [command_channels EXCEPT ![c] =
                               [open |-> FALSE, queue |-> <<>>]]
    /\ UNCHANGED <<config, vvars, file, ipc, i_node, i_nbr, topology, senders,
                   packet_send_map, distros, indexes, list_gui_channels, sent>>

----------------------------------------------------------------------------
\* The Configs network_init is run on

\* n entries with ids 0 .. n - 1 and no neighbors.
Isolated(n, lo) == [i \in 1 .. n |-> [id |-> lo + i - 1, nbrs |-> <<>>]]
AsDrones(es) ==
    [i \in DOMAIN es |->
        [id |-> es[i].id, connected_node_ids |-> es[i].nbrs, pdr |-> 0]]
AsEdges(es) ==
    [i \in DOMAIN es |-> [id |-> es[i].id, connected_drone_ids |-> es[i].nbrs]]

\* Nodes of one kind, up to one more than twice the variants of the kind,
\* and one node of each kind; none has a neighbor.
UnwiredConfigs ==
    {[drone |-> AsDrones(Isolated(n, 0)), client |-> <<>>, server |-> <<>>] :
        n \in 0 .. (MAX_IMPL + 1)}
    \cup {[drone |-> <<>>, client |-> AsEdges(Isolated(n, 0)), server |-> <<>>] :
        n \in 0 .. (MAX_CLIENT_TYPES + 1)}
    \cup {[drone |-> <<>>, client |-> <<>>, server |-> AsEdges(Isolated(n, 0))] :
        n \in 0 .. (MAX_SERVER_TYPES + 1)}
    \cup {[drone |-> AsDrones(Isolated(1, 0)), client |-> AsEdges(Isolated(1, 1)),
           server |-> AsEdges(Isolated(1, 2))]}

\* Topologies validate_config accepts: a drone and a client; two drones
\* and a server, declared in another order than that of their ids.
WiredConfigs ==
    {[drone |-> <<[id |-> 0, connected_node_ids |-> <<1>>, pdr |-> 0]>>,
      client |-> <<[id |-> 1, connected_drone_ids |-> <<0>>]>>,
      server |-> <<>>],
     [drone |-> <<[id |-> 1, connected_node_ids |-> <<2, 0>>, pdr |-> 0],
                  [id |-> 2, connected_node_ids |-> <<0, 1>>, pdr |-> 1]>>,
      client |-> <<>>,
      server |-> <<[id |-> 0, connected_drone_ids |-> <<1, 2>>]>>]}

\* Configs validate_config rejects: a drone listing an undeclared id after
\* a declared one; a drone listing an undeclared id, its own id being
\* declared again as a client; and an id declared as a drone and again as a
\* client, every neighbor being declared.
UnvalidatedConfigs ==
    {[drone |-> <<[id |-> 0, connected_node_ids |-> <<1>>, pdr |-> 0],
                  [id |-> 1, connected_node_ids |-> <<0, 2>>, pdr |-> 0]>>,
      client |-> <<>>, server |-> <<>>],
     [drone |-> <<[id |-> 0, connected_node_ids |-> <<1>>, pdr |-> 0]>>,
      client |-> <<[id |-> 0, connected_drone_ids |-> <<>>]>>,
      server |-> <<>>],
     [drone |-> <<[id |-> 0, connected_node_ids |-> <<1>>, pdr |-> 0],
                  [id |-> 1, connected_node_ids |-> <<0>>, pdr |-> 0]>>,
      client |-> <<[id |-> 0, connected_drone_ids |-> <<1>>]>>,
      server |-> <<>>]}

InitConfigs == UnwiredConfigs \cup WiredConfigs \cup UnvalidatedConfigs

----------------------------------------------------------------------------
\* network_init called on a Config

ValidatorIdle ==
    /\ pc = "done"
    /\ node_ids = {}
    /\ drone_ids = {}
    /\ n_nodes = 0
    /\ n_drones = 0
    /\ graph = EmptyGraph
    /\ result = Pending

NetworkInitCalled ==
    /\ config \in InitConfigs
    /\ ValidatorIdle
    /\ file = "parsed"
    /\ LET p == Settle(config, 1, 1, 1)
       IN ipc = Phases[p[1]] /\ i_node = p[2] /\ i_nbr = p[3]
    /\ Constructed

NetworkInitNext ==
    \/ SpawnDrone
    \/ SpawnClient
    \/ SpawnServer
    \/ WireDrone
    \/ WireClient
    \/ WireServer
    \/ Assemble
    \/ \E c \in DOMAIN threads : ThreadAddsNeighbor(c)
    \/ \E c \in DOMAIN threads : ThreadRuns(c)
    \/ \E c \in DOMAIN threads : ThreadEnds(c)

InitSpec == NetworkInitCalled /\ [][NetworkInitNext]_vars

\* network_init called on a Config validate_config accepts; the calling
\* thread keeps running until it returns, and a node thread that has a
\* command waiting eventually takes it.
NetworkInitStep ==
    \/ SpawnDrone
    \/ SpawnClient
    \/ SpawnServer
    \/ WireDrone
    \/ WireClient
    \/ WireServer
    \/ Assemble
ValidatedCalled ==
    /\ NetworkInitCalled
    /\ validate_config(config) = OK
FairInitSpec ==
    /\ ValidatedCalled
    /\ [][NetworkInitNext]_vars
    /\ WF_vars(NetworkInitStep)
    /\ WF_vars(\E c \in DOMAIN threads : ThreadAddsNeighbor(c))

\* network_init called on a Config validate_config accepts, the calling
\* thread running until it returns and the node threads being scheduled in
\* any way, never at all included.
UnscheduledSpec ==
    /\ ValidatedCalled
    /\ [][NetworkInitNext]_vars
    /\ WF_vars(NetworkInitStep)

----------------------------------------------------------------------------
\* network_init called again on the same Config

\* Mutant of NetworkInitAgain: the three indexes outlive the call.
NetworkInitAgain_KeepsIndexes ==
    /\ ipc = "returned"
    /\ Len(threads) = Len(AllIds(config))
    /\ topology' = [n \in NodeIds |->
                       [node_type |-> NoNodeType, neighbors |-> {}]]
    /\ senders' = [n \in NodeIds |-> NoCommand]
    /\ packet_send_map' = [n \in NodeIds |-> NoSender]
    /\ distros' = [drone |-> [k \in 0 .. (MAX_IMPL - 1) |-> 0],
                   client |-> [k \in 0 .. (MAX_CLIENT_TYPES - 1) |-> 0],
                   server |-> [k \in 0 .. (MAX_SERVER_TYPES - 1) |-> 0]]
    /\ list_gui_channels' = <<>>
    /\ sent' = <<>>
    /\ GoOn("spawn_drones", 1, 1)
    /\ UNCHANGED <<config, vvars, file, indexes, threads, command_channels>>

\* The caller, holding the result of a call of network_init, calls it again
\* on the same &Config: the locals are bound anew (init.rs 129-155), while
\* the threads spawned by the earlier call and their channels live on.
\* `sent` goes on with the commands sent by the new call.
NetworkInitAgain ==
    /\ ipc = "returned"
    /\ Len(threads) = Len(AllIds(config))
    /\ topology' = [n \in NodeIds |->
                       [node_type |-> NoNodeType, neighbors |-> {}]]
    /\ senders' = [n \in NodeIds |-> NoCommand]
    /\ packet_send_map' = [n \in NodeIds |-> NoSender]
    /\ distros' = [drone |-> [k \in 0 .. (MAX_IMPL - 1) |-> 0],
                   client |-> [k \in 0 .. (MAX_CLIENT_TYPES - 1) |-> 0],
                   server |-> [k \in 0 .. (MAX_SERVER_TYPES - 1) |-> 0]]
    /\ indexes' = [drone |-> 0, client |-> 0, server |-> 0]
    /\ list_gui_channels' = <<>>
    /\ sent' = <<>>
    /\ GoOn("spawn_drones", 1, 1)
    /\ UNCHANGED <<config, vvars, file, threads, command_channels>>

\* One node of a kind; one node of each kind; a drone and a client, a drone
\* and a server, the client and the server listing the drone.
AgainConfigs ==
    {[drone |-> AsDrones(Isolated(1, 0)), client |-> <<>>, server |-> <<>>],
     [drone |-> <<>>, client |-> AsEdges(Isolated(1, 0)), server |-> <<>>],
     [drone |-> <<>>, client |-> <<>>, server |-> AsEdges(Isolated(1, 0))],
     [drone |-> AsDrones(Isolated(1, 0)), client |-> AsEdges(Isolated(1, 1)),
      server |-> AsEdges(Isolated(1, 2))],
     [drone |-> <<[id |-> 0, connected_node_ids |-> <<1>>, pdr |-> 0]>>,
      client |-> <<[id |-> 1, connected_drone_ids |-> <<0>>]>>,
      server |-> <<>>],
     [drone |-> <<[id |-> 0, connected_node_ids |-> <<>>, pdr |-> 1]>>,
      client |-> <<>>,
      server |-> <<[id |-> 1, connected_drone_ids |-> <<0>>]>>]}

AgainCalled ==
    /\ config \in AgainConfigs
    /\ ValidatorIdle
    /\ file = "parsed"
    /\ LET p == Settle(config, 1, 1, 1)
       IN ipc = Phases[p[1]] /\ i_node = p[2] /\ i_nbr = p[3]
    /\ Constructed

AgainNext ==
    \/ SpawnDrone
    \/ SpawnClient
    \/ SpawnServer
    \/ WireDrone
    \/ WireClient
    \/ WireServer
    \/ Assemble
    \/ NetworkInitAgain
    \/ \E c \in DOMAIN threads : ThreadAddsNeighbor(c)
    \/ \E c \in DOMAIN threads : ThreadRuns(c)
    \/ \E c \in DOMAIN threads : ThreadEnds(c)

AgainSpec == AgainCalled /\ [][AgainNext]_vars

----------------------------------------------------------------------------
\* The caller: network_validate(file_path)?, then network_init(&config)

EmptyConfig == [drone |-> <<>>, client |-> <<>>, server |-> <<>>]

FlowCalled ==
    /\ file \in {"unreadable", "malformed", "parsed"}
    /\ config \in IF file = "parsed" THEN InitConfigs ELSE {EmptyConfig}
    /\ ValidatorIdle
    /\ ipc = "validate"
    /\ i_node = 1
    /\ i_nbr = 1
    /\ Constructed

\* network_validate returns; on Err the caller returns it (the ? operator),
\* on Ok it calls network_init.
NetworkValidate ==
    /\ ipc = "validate"
    /\ LET r == network_validate(file, config)
       IN /\ result' = r
          /\ IF r = OK THEN GoOn("spawn_drones", 1, 1)
             ELSE ipc' = "rejected" /\ UNCHANGED <<i_node, i_nbr>>
    /\ UNCHANGED <<config, pc, node_ids, drone_ids, n_nodes, n_drones, graph,
                   file, topology, senders, packet_send_map, distros, indexes,
                   list_gui_channels, threads, command_channels, sent>>

FlowNext ==
    \/ NetworkValidate
    \/ SpawnDrone
    \/ SpawnClient
    \/ SpawnServer
    \/ WireDrone
    \/ WireClient
    \/ WireServer
    \/ Assemble
    \/ \E c \in DOMAIN threads : ThreadAddsNeighbor(c)
    \/ \E c \in DOMAIN threads : ThreadRuns(c)
    \/ \E c \in DOMAIN threads : ThreadEnds(c)

FlowSpec == FlowCalled /\ [][FlowNext]_vars


----------------------------------------------------------------------------
\* The graph invariants of a Config, stated on the Config itself

Done == pc = "done"

\* Every entry of cfg in declaration order, tagged with its kind.
AllEntries(cfg) ==
    [i \in DOMAIN cfg.drone |->
        [kind |-> "drone", id |-> cfg.drone[i].id,
         nbrs |-> cfg.drone[i].connected_node_ids, pdr |-> cfg.drone[i].pdr]]
    \o [i \in DOMAIN cfg.client |->
        [kind |-> "client", id |-> cfg.client[i].id,
         nbrs |-> cfg.client[i].connected_drone_ids, pdr |-> 0]]
    \o [i \in DOMAIN cfg.server |->
        [kind |-> "server", id |-> cfg.server[i].id,
         nbrs |-> cfg.server[i].connected_drone_ids, pdr |-> 0]]

Declared(cfg) == Range(AllIds(cfg))
DeclaredDrones(cfg) == Range(EntryIds(cfg)[1])
\* The ids listed as neighbors by the entries whose id is a.
Listed(cfg, a) ==
    LET E == AllEntries(cfg)
    IN UNION {Range(E[i].nbrs) : i \in {k \in DOMAIN E : E[k].id = a}}

Least(S) == CHOOSE x \in S : \A y \in S : x <= y

Injective(q) == \A a, b \in DOMAIN q : q[a] = q[b] => a = b

UniqueIds(cfg) == Injective(AllIds(cfg))
NoSelfLoop(e) == e.id \notin Range(e.nbrs)
NoDuplicateNeighbor(e) == Injective(e.nbrs)
PdrInRange(e) == e.kind = "drone" => (0 <= e.pdr /\ e.pdr <= PdrScale)
DegreeInRange(e) ==
    /\ e.kind = "client" => Len(e.nbrs) \in {1, 2}
    /\ e.kind = "server" => Len(e.nbrs) \notin {0, 1}
NeighborsAreDroneIds(cfg) ==
    LET E == AllEntries(cfg)
        D == DeclaredDrones(cfg)
    IN \A i \in DOMAIN E : E[i].kind # "drone" => Range(E[i].nbrs) \subseteq D
Bidirectional(cfg) ==
    \A a \in Declared(cfg) : \A b \in Listed(cfg, a) :
        b \in Declared(cfg) /\ a \in Listed(cfg, b)

\* For each node of V, the nodes of V joined to it by an edge declared from
\* either side.
Adjacency(cfg, V) ==
    LET L == [a \in V |-> Listed(cfg, a)]
    IN [a \in V |-> {b \in V : b \in L[a] \/ a \in L[b]}]
RECURSIVE Reachable(_, _)
Reachable(adj, S) ==
    LET T == S \cup UNION {adj[a] : a \in S}
    IN IF T = S THEN S ELSE Reachable(adj, T)
\* Adjacency is symmetric, so V is connected when one of its nodes reaches
\* all of it.
ConnectedOn(cfg, V) ==
    V = {} \/ Reachable(Adjacency(cfg, V), {Least(V)}) = V
GloballyConnected(cfg) == ConnectedOn(cfg, Declared(cfg))
DroneSubgraphConnected(cfg) == ConnectedOn(cfg, DeclaredDrones(cfg))

StructurallyValid(e) ==
    NoSelfLoop(e) /\ NoDuplicateNeighbor(e) /\ PdrInRange(e) /\ DegreeInRange(e)

AllStructurallyValid(cfg) ==
    LET E == AllEntries(cfg) IN \A i \in DOMAIN E : StructurallyValid(E[i])

AllInvariants(cfg) ==
    /\ UniqueIds(cfg)
    /\ AllStructurallyValid(cfg)
    /\ NeighborsAreDroneIds(cfg)
    /\ Bidirectional(cfg)
    /\ GloballyConnected(cfg)
    /\ DroneSubgraphConnected(cfg)

ErrorMsgs ==
    {MsgDuplicateId, MsgInvalidPdr, MsgDroneSelf, MsgDroneDupNbr, MsgClientZero,
     MsgClientMany, MsgClientSelf, MsgClientDupNbr, MsgServerFew, MsgServerSelf,
     MsgServerDupNbr, MsgClientNotDrone, MsgServerNotDrone, MsgNotExist,
     MsgNotBidirectional, MsgNotConnected, MsgNotOnEdge}
IsErr(r) == r.msg \in ErrorMsgs

----------------------------------------------------------------------------
----------------------------------------------------------------------------
\* Order of the checks

StructuralMsgs ==
    {MsgInvalidPdr, MsgDroneSelf, MsgDroneDupNbr, MsgClientZero, MsgClientMany,
     MsgClientSelf, MsgClientDupNbr, MsgServerFew, MsgServerSelf, MsgServerDupNbr}

\* Entry j repeats the id of an earlier entry.
RepeatsEarlierId(cfg, j) ==
    LET ids == AllIds(cfg) IN \E i \in 1 .. (j - 1) : ids[i] = ids[j]

\* Entry j fails its own structural check or repeats an earlier id.
BadEntry(cfg, j) ==
    ~StructurallyValid(AllEntries(cfg)[j]) \/ RepeatsEarlierId(cfg, j)

\* The first bad entry in declaration order, 0 when there is none.
FirstBadEntry(cfg) ==
    LET B == {j \in DOMAIN AllEntries(cfg) : BadEntry(cfg, j)}
    IN IF B = {} THEN 0 ELSE Least(B)

\* What the stages after the node loops return, by the first invariant violated.
GraphStageOutcome(cfg, r) ==
    IF ~NeighborsAreDroneIds(cfg)
    THEN r.msg \in {MsgClientNotDrone, MsgServerNotDrone}
    ELSE IF ~Bidirectional(cfg)
    THEN r.msg \in {MsgNotExist, MsgNotBidirectional}
    ELSE IF ~GloballyConnected(cfg) THEN r = Err(MsgNotConnected, <<>>)
    ELSE IF ~DroneSubgraphConnected(cfg) THEN r = Err(MsgNotOnEdge, <<>>)
    ELSE r = OK

\* C2 (as amended): the structural check and the duplicate-id test are
\* interleaved entry by entry.  The error returned is that of the first entry,
\* in declaration order, that fails its own structural check or else repeats
\* an earlier id; only when no entry does, the error is that of the first
\* violated stage among neighbor-kind, bidirectionality, global connectivity
\* and drone-subgraph connectivity.
C2_FailFastInterleaved ==
    Done =>
        LET j == FirstBadEntry(config) IN
        IF j # 0
        THEN LET e == AllEntries(config)[j] IN
             IF ~StructurallyValid(e)
             THEN result.msg \in StructuralMsgs /\ result.args[1] = e.id
             ELSE result = Err(MsgDuplicateId, <<e.id>>)
        ELSE GraphStageOutcome(config, result)

\* C2 (as stated): a structural violation of any entry is reported in
\* preference to a duplicate id, and a duplicate id in preference to the
\* later stages.
C2_StructuralBeforeDuplicate ==
    Done =>
        IF ~AllStructurallyValid(config)
        THEN result.msg \in StructuralMsgs
        ELSE IF ~UniqueIds(config) THEN result.msg = MsgDuplicateId
        ELSE GraphStageOutcome(config, result)

\* A duplicate id among the drones is reported although a later entry has
\* a structural violation.
C2_Witness ==
    /\ Done /\ result.msg = MsgDuplicateId
    /\ ~AllStructurallyValid(config)

----------------------------------------------------------------------------
\* What an error names

\* r names an entry of cfg that breaks the rule r.msg states.
NamesOffender(cfg, r) ==
    LET E == AllEntries(cfg)
        entry(kind, P(_)) ==
            \E i \in DOMAIN E : E[i].kind = kind /\ E[i].id = r.args[1] /\ P(E[i])
        self(e) == ~NoSelfLoop(e) /\ r.args = <<e.id>>
        dup(e) == /\ Len(r.args) = 2
                  /\ Cardinality({k \in DOMAIN e.nbrs : e.nbrs[k] = r.args[2]}) >= 2
        notDrone(e) == /\ Len(r.args) = 2
                       /\ r.args[2] \in Range(e.nbrs)
                       /\ r.args[2] \notin DeclaredDrones(cfg)
        pdrOut(e) == ~PdrInRange(e) /\ r.args = <<e.id, e.pdr>>
        zero(e) == Len(e.nbrs) = 0 /\ r.args = <<e.id>>
        many(e) == Len(e.nbrs) > 2 /\ r.args = <<e.id>>
        few(e) == Len(e.nbrs) < 2 /\ r.args = <<e.id>>
    IN CASE r.msg = MsgDuplicateId ->
                /\ Len(r.args) = 1
                /\ Cardinality({i \in DOMAIN E : E[i].id = r.args[1]}) >= 2
         [] r.msg = MsgInvalidPdr -> entry("drone", pdrOut)
         [] r.msg = MsgDroneSelf -> entry("drone", self)
         [] r.msg = MsgDroneDupNbr -> entry("drone", dup)
         [] r.msg = MsgClientZero -> entry("client", zero)
         [] r.msg = MsgClientMany -> entry("client", many)
         [] r.msg = MsgClientSelf -> entry("client", self)
         [] r.msg = MsgClientDupNbr -> entry("client", dup)
         [] r.msg = MsgServerFew -> entry("server", few)
         [] r.msg = MsgServerSelf -> entry("server", self)
         [] r.msg = MsgServerDupNbr -> entry("server", dup)
         [] r.msg = MsgClientNotDrone -> entry("client", notDrone)
         [] r.msg = MsgServerNotDrone -> entry("server", notDrone)
         [] r.msg = MsgNotExist ->
                /\ Len(r.args) = 2
                /\ r.args[1] \in Declared(cfg)
                /\ r.args[2] \in Listed(cfg, r.args[1])
                /\ r.args[2] \notin Declared(cfg)
         [] r.msg = MsgNotBidirectional ->
                /\ Len(r.args) = 2
                /\ r.args[2] \in Declared(cfg) /\ r.args[1] \in Declared(cfg)
                /\ r.args[1] \in Listed(cfg, r.args[2])
                /\ r.args[2] \notin Listed(cfg, r.args[1])
         [] OTHER -> FALSE

----------------------------------------------------------------------------
\* Bidirectionality

\* The node loops and the neighbor-kind check pass.
PassesNodeAndKindChecks(cfg) ==
    UniqueIds(cfg) /\ AllStructurallyValid(cfg) /\ NeighborsAreDroneIds(cfg)

\* The pairs (A, B), A declared and listing B, that the bidirectionality
\* check rejects: B is not declared, or B does not list A.
FailingPairs(cfg) ==
    LET V == Declared(cfg)
        L == [a \in V |-> Listed(cfg, a)]
    IN {p \in V \X NodeIds :
            /\ p[2] \in L[p[1]]
            /\ (p[2] \notin V \/ p[1] \notin L[p[2]])}

\* The pairs among them whose B is declared: A lists B, B does not list A.
OneWayPairs(cfg) == {p \in FailingPairs(cfg) : p[2] \in Declared(cfg)}

\* The first pair of S by ascending A, then ascending B.
FirstPair(S) ==
    CHOOSE p \in S : \A q \in S : p[1] < q[1] \/ (p[1] = q[1] /\ p[2] <= q[2])

E2EWithout7To4 ==
    [E2EConfig EXCEPT !.drone[3].connected_node_ids = <<6>>]

\* C4 (as amended): for a Config that passes the per-node, duplicate-id and
\* neighbor-kind checks and in which some declared node A lists a declared
\* node B whose list lacks A, validate_config returns an error of the
\* bidirectionality check decided by the first failing pair (ascending A,
\* then ascending B): the non-bidirectional error naming that pair when its
\* B is declared, and the 'does not exist' error when an earlier pair lists
\* an undeclared id.  The end-to-end example is accepted, and without the
\* reverse edge 7 -> 4 it is rejected with the error citing 7 and 4.
C4_FirstFailingPairDecides ==
    Done =>
        /\ (PassesNodeAndKindChecks(config) /\ OneWayPairs(config) # {}) =>
               LET p == FirstPair(FailingPairs(config)) IN
               IF p[2] \in Declared(config)
               THEN result = Err(MsgNotBidirectional, <<p[2], p[1]>>)
               ELSE result = Err(MsgNotExist, <<p[1], p[2]>>)
        /\ config = E2EConfig => result = OK
        /\ config = E2EWithout7To4 => result = Err(MsgNotBidirectional, <<7, 4>>)

\* C4 (as stated): whenever some declared A lists a declared B whose list
\* lacks A, the error returned is the non-bidirectional one naming such a pair.
C4_AlwaysNonBidirectionalError ==
    (Done /\ PassesNodeAndKindChecks(config) /\ OneWayPairs(config) # {}) =>
        \E p \in OneWayPairs(config) :
            result = Err(MsgNotBidirectional, <<p[2], p[1]>>)

\* The end-to-end example without the reverse edge 7 -> 4 has been rejected.
C4_Witness ==
    Done /\ config = E2EWithout7To4 /\ result.msg = MsgNotBidirectional

----------------------------------------------------------------------------
\* Connectivity

\* Every check before the drone-subgraph traversal passes.
PassesUpToConnectivity(cfg) ==
    /\ PassesNodeAndKindChecks(cfg)
    /\ Bidirectional(cfg)
    /\ GloballyConnected(cfg)

\* C5: for every Config that passes all earlier checks, global connectivity
\* included, validate_edges_clients_servers returns Ok if and only if the
\* subgraph of the drone-to-drone edges is connected, and its error is the
\* 'not all on the edge' one; so drones in two clusters joined only through
\* a client or server are rejected.
C5_EdgeCheckIffDroneSubgraphConnected ==
    (Done /\ PassesUpToConnectivity(config)) =>
        IF DroneSubgraphConnected(config)
        THEN result = OK
        ELSE result = Err(MsgNotOnEdge, <<>>)

\* A globally connected Config whose drones are joined only through a
\* client or server has been rejected.
C5_Witness ==
    /\ Done /\ result.msg = MsgNotOnEdge
    /\ PassesUpToConnectivity(config)
    /\ ~DroneSubgraphConnected(config)

\* C6: for every Config that passed the bidirectionality check,
\* validate_connected_graph returns Ok if and only if every declared node is
\* reachable from the start node over the declared edges, and the traversal
\* gives the same outcome from every declared node taken as the start.
C6_ConnectedIffAllReachedFromAnyStart ==
    (Done /\ PassesNodeAndKindChecks(config) /\ Bidirectional(config)) =>
        LET V == Declared(config)
            returnedOk == result.msg # MsgNotConnected
        IN /\ result.msg \in {MsgNotConnected, MsgNotOnEdge, "Ok"}
           /\ V # {} =>
                (returnedOk <=> Reachable(Adjacency(config, V), {Least(V)}) = V)
           /\ \A start \in V :
                returnedOk <=> ConnectedFrom(graph, start, n_nodes) = OK

\* A bidirectional Config of at least three nodes has been rejected as not
\* connected.
C6_Witness ==
    /\ Done /\ result.msg = MsgNotConnected
    /\ Bidirectional(config)
    /\ Cardinality(Declared(config)) >= 3

----------------------------------------------------------------------------
\* Per-node checks

\* The per-node check validate_config runs on entry e.
ValidateEntry(e) ==
    CASE e.kind = "drone" ->
           validate_drone([id |-> e.id, connected_node_ids |-> e.nbrs,
                           pdr |-> e.pdr])
      [] e.kind = "client" ->
           validate_client([id |-> e.id, connected_drone_ids |-> e.nbrs])
      [] e.kind = "server" ->
           validate_server([id |-> e.id, connected_drone_ids |-> e.nbrs])

DegreeMsgs == {MsgClientZero, MsgClientMany, MsgServerFew}

\* The error a client or server of a degree out of range is rejected with.
DegreeError(e) ==
    IF e.kind = "server" THEN Err(MsgServerFew, <<e.id>>)
    ELSE IF Len(e.nbrs) = 0 THEN Err(MsgClientZero, <<e.id>>)
    ELSE Err(MsgClientMany, <<e.id>>)

\* C7: a client with 0 or with more than 2 neighbors is rejected with an
\* error naming the client, and one with 1 or 2 passes the degree check; a
\* server with fewer than 2 neighbors is rejected with an error naming the
\* server, and one with 2 or more passes; the degree is checked before the
\* self-loop and duplicate-neighbor tests of the same node, so a degree out
\* of range decides the error whatever the list holds.
C7_DegreeBoundsCheckedFirst ==
    Done =>
        LET E == AllEntries(config)
            j == FirstBadEntry(config)
        IN /\ \A i \in DOMAIN E :
                 E[i].kind # "drone" =>
                    IF DegreeInRange(E[i])
                    THEN ValidateEntry(E[i]).msg \notin DegreeMsgs
                    ELSE ValidateEntry(E[i]) = DegreeError(E[i])
           /\ (j # 0 /\ ~DegreeInRange(E[j])) => result = DegreeError(E[j])
           /\ result.msg \in DegreeMsgs => (j # 0 /\ ~DegreeInRange(E[j]))

\* A client of more than two neighbors, its own id among them, has been
\* rejected for its degree.
C7_Witness ==
    /\ Done /\ result.msg = MsgClientMany
    /\ \E i \in DOMAIN config.client :
          /\ config.client[i].id = result.args[1]
          /\ config.client[i].id \in Range(config.client[i].connected_drone_ids)

\* The entries that repeat the id of an earlier entry, no entry up to and
\* including them failing its own structural check.
CleanRepeats(cfg) ==
    LET E == AllEntries(cfg)
    IN {j \in DOMAIN E : /\ \E i \in 1 .. (j - 1) : E[i].id = E[j].id
                         /\ \A k \in 1 .. j : StructurallyValid(E[k])}

\* C8 (as amended): whenever two entries of drones, clients and servers, of
\* the same kind or not, share an id and no entry up to and including the
\* second occurrence fails its own structural check, validate_config returns
\* 'Duplicate node ID found' naming the id of the first entry, in declaration
\* order, that repeats an earlier id.
C8_FirstRepeatedIdReported ==
    (Done /\ CleanRepeats(config) # {}) =>
        result = Err(MsgDuplicateId,
                     <<AllEntries(config)[Least(CleanRepeats(config))].id>>)

\* C8 (as stated): the id named is that of any such pair of entries.
C8_AnyRepeatedIdReported ==
    Done =>
        \A j \in CleanRepeats(config) :
            result = Err(MsgDuplicateId, <<AllEntries(config)[j].id>>)

\* An id shared by entries of two kinds has been reported.
C8_Witness ==
    /\ Done /\ result.msg = MsgDuplicateId
    /\ \E j \in CleanRepeats(config) : \E i \in 1 .. (j - 1) :
          LET E == AllEntries(config)
          IN E[i].id = E[j].id /\ E[i].kind # E[j].kind /\ E[j].id = result.args[1]

----------------------------------------------------------------------------
\* Neighbor kinds

\* The clients and servers, by position in AllEntries, that list an id that
\* is no drone's.
KindOffenders(cfg) ==
    LET E == AllEntries(cfg)
        D == DeclaredDrones(cfg)
    IN {j \in DOMAIN E : E[j].kind # "drone" /\ ~(Range(E[j].nbrs) \subseteq D)}

\* The error for the first position of e's list that is no drone's id.
KindError(cfg, e) ==
    LET D == DeclaredDrones(cfg)
        p == Least({q \in DOMAIN e.nbrs : e.nbrs[q] \notin D})
    IN Err(IF e.kind = "client" THEN MsgClientNotDrone ELSE MsgServerNotDrone,
           <<e.id, e.nbrs[p]>>)

\* C9: if all per-node and duplicate-id checks pass and some client or
\* server lists an id that is not a drone's (a client's, a server's or an
\* undeclared one), validate_config returns the error naming that client or
\* server and that neighbor: the first offending pair, clients before
\* servers, each in declaration order, each list in its order.
C9_FirstNonDroneNeighborReported ==
    (Done /\ UniqueIds(config) /\ AllStructurallyValid(config)
          /\ KindOffenders(config) # {}) =>
        result = KindError(config,
                           AllEntries(config)[Least(KindOffenders(config))])

\* A client's neighbor has been reported while a server offends as well.
C9_Witness ==
    /\ Done /\ result.msg = MsgClientNotDrone
    /\ \E j \in KindOffenders(config) : AllEntries(config)[j].kind = "server"

----------------------------------------------------------------------------
\* Neighbor-list scan

\* The positions of e's list that hold e's own id or an id held earlier.
OffendingPositions(e) ==
    {p \in DOMAIN e.nbrs :
        e.nbrs[p] = e.id \/ \E q \in 1 .. (p - 1) : e.nbrs[q] = e.nbrs[p]}

\* The error the first offending position of e's list decides.
ListScanError(e) ==
    LET p == Least(OffendingPositions(e)) IN
    IF e.nbrs[p] = e.id
    THEN Err(CASE e.kind = "drone" -> MsgDroneSelf
               [] e.kind = "client" -> MsgClientSelf
               [] e.kind = "server" -> MsgServerSelf, <<e.id>>)
    ELSE Err(CASE e.kind = "drone" -> MsgDroneDupNbr
               [] e.kind = "client" -> MsgClientDupNbr
               [] e.kind = "server" -> MsgServerDupNbr, <<e.id, e.nbrs[p]>>)

\* C10: a drone, client or server whose list is scanned (its pdr and degree
\* being in range) and holds its own id or a repeated id is rejected by the
\* first offending position of the list in order: 'is connected to itself'
\* naming the node when that position holds the node's own id, 'has
\* duplicate neighbor' naming the node and the repeated id otherwise; a list
\* with no such position passes.
C10_FirstOffendingPositionDecides ==
    Done =>
        LET E == AllEntries(config)
            j == FirstBadEntry(config)
            scanned(e) == PdrInRange(e) /\ DegreeInRange(e)
        IN /\ \A i \in DOMAIN E :
                 scanned(E[i]) =>
                    IF OffendingPositions(E[i]) = {}
                    THEN ValidateEntry(E[i]) = OK
                    ELSE ValidateEntry(E[i]) = ListScanError(E[i])
           /\ (j # 0 /\ scanned(E[j]) /\ OffendingPositions(E[j]) # {}) =>
                 result = ListScanError(E[j])

\* A repeated neighbor has been reported for a node whose list holds its own
\* id at a later position.
C10_Witness ==
    /\ Done /\ result.msg \in {MsgDroneDupNbr, MsgClientDupNbr, MsgServerDupNbr}
    /\ \E i \in DOMAIN AllEntries(config) :
          LET e == AllEntries(config)[i]
          IN /\ e.id = result.args[1]
             /\ e.id \in Range(e.nbrs)
             /\ result = ListScanError(e)

----------------------------------------------------------------------------
\* Packet drop rate

\* C11: a drone whose pdr is below 0 or above 1 (PdrScale) is rejected with
\* 'Invalid PDR' naming the drone and the value, whatever its neighbor list
\* holds, since the pdr is checked before the list is inspected; a drone
\* whose pdr is exactly 0 or exactly 1 passes the pdr check.
C11_PdrCheckedFirst ==
    Done =>
        LET E == AllEntries(config)
            j == FirstBadEntry(config)
            pdrError(e) == Err(MsgInvalidPdr, <<e.id, e.pdr>>)
        IN /\ \A i \in DOMAIN E :
                 E[i].kind = "drone" =>
                    /\ (E[i].pdr < 0 \/ E[i].pdr > PdrScale) =>
                          ValidateEntry(E[i]) = pdrError(E[i])
                    /\ E[i].pdr \in {0, PdrScale} =>
                          ValidateEntry(E[i]).msg # MsgInvalidPdr
           /\ (j # 0 /\ ~PdrInRange(E[j])) => result = pdrError(E[j])
           /\ result.msg = MsgInvalidPdr => (j # 0 /\ ~PdrInRange(E[j]))

\* A drone of a pdr out of range whose list holds its own id or a repeated
\* id has been rejected for its pdr.
C11_Witness ==
    /\ Done /\ result.msg = MsgInvalidPdr
    /\ \E i \in DOMAIN config.drone :
          LET e == AllEntries(config)[i]
          IN e.id = result.args[1] /\ OffendingPositions(e) # {}

----------------------------------------------------------------------------
\* Neighbors that are not declared

\* The pairs (A, B) with A declared and listing B, B not declared.
DanglingPairs(cfg) == {p \in FailingPairs(cfg) : p[2] \notin Declared(cfg)}

----------------------------------------------------------------------------
\* network_init: spawn before wiring

\* network_init is past its spawn loops.
SpawnLoopsLeft == ipc \in WirePhases \cup {"assembly", "returned", "panicked"}

\* Every entry of cfg has its thread, in declaration order, and a send end
\* stored under its id: its own when no other entry has the same id.
AllSpawned(cfg) ==
    LET E == AllEntries(cfg)
    IN /\ Len(threads) = Len(E)
       /\ \A i \in DOMAIN E :
             /\ threads[i].kind = E[i].kind /\ threads[i].id = E[i].id
             /\ packet_send_map[E[i].id].some
             /\ UniqueIds(cfg) => packet_send_map[E[i].id].chan = threads[i].packet_rx

\* C13: spawn fully precedes wiring.  In every state of network_init in
\* which an AddSender/AddDrone command has been sent, or a wiring loop has
\* been entered, every drone, client and server of the Config has been
\* spawned and has a packet-send end stored in packet_send_map; and every
\* command sent carries the send end of a channel that has been created.
C13_SpawnPrecedesWiring ==
    /\ (sent # <<>> \/ SpawnLoopsLeft) => AllSpawned(config)
    /\ \A k \in DOMAIN sent :
          /\ sent[k].cmd.sender \in DOMAIN threads
          /\ threads[sent[k].cmd.sender].packet_rx = sent[k].cmd.sender

\* The first command has just been sent on a Config of drones and a server.
C13_Witness ==
    /\ Len(sent) = 1
    /\ ipc \in WirePhases
    /\ config.server # <<>>

----------------------------------------------------------------------------
\* network_init: wiring completeness

\* The threads spawned for the entries of id n.
ThreadsOf(n) == {c \in DOMAIN threads : threads[c].id = n}

\* Thread c has, under id b, a send end whose receive end is the packet
\* channel of a thread of id b.
HasSenderTo(c, b) ==
    \E d \in ThreadsOf(b) : threads[c].table[b] = threads[d].packet_rx

\* Every entry has its thread and, for each neighbor it declares, the
\* thread has the neighbor's send end, unless the thread has ended.
WiredBothWays ==
    LET E == AllEntries(config)
    IN /\ Len(threads) = Len(E)
       /\ \A i \in DOMAIN E : \A b \in Range(E[i].nbrs) :
             /\ threads[i].alive => HasSenderTo(i, b)
             /\ \A d \in ThreadsOf(b) :
                   threads[d].alive => HasSenderTo(d, E[i].id)

\* C14: after network_init on a validated Config, the node threads taking
\* the commands on their command channels, for every declared edge (A, B)
\* the neighbor table of A eventually holds, and keeps, a send end whose
\* receive end is B's packet channel, and the table of B one for A (a
\* thread that has ended takes no command).
C14_EventuallyWired == <>[]WiredBothWays

\* On a Config with a server every thread runs and is wired.
C14_Witness ==
    /\ WiredBothWays
    /\ ipc = "returned"
    /\ config.server # <<>>
    /\ \A c \in DOMAIN threads : threads[c].alive

----------------------------------------------------------------------------
\* network_init: the commands sent

Validated(cfg) == validate_config(cfg) = OK

\* The commands sent on channel c, in order.
CommandsSentOn(c) ==
    LET on(x) == x.chan = c
        q == SelectSeq(sent, on)
    IN [k \in DOMAIN q |-> q[k].cmd]

\* The entry of cfg whose id is b (ids being unique).
EntryOf(cfg, b) == CHOOSE i \in DOMAIN AllEntries(cfg) : AllEntries(cfg)[i].id = b

\* The commands network_init is to send to entry i of cfg: one per entry of
\* its neighbor list, in list order, of the variant of its kind, each with
\* the neighbor's id and the send end of the neighbor's packet channel.
CommandsOwed(cfg, i) ==
    LET e == AllEntries(cfg)[i]
    IN [k \in DOMAIN e.nbrs |->
          [enum |-> CASE e.kind = "drone" -> "DroneCommand"
                      [] e.kind = "client" -> "ClientCommand"
                      [] e.kind = "server" -> "ServerCommand",
           variant |-> IF e.kind = "drone" THEN "AddSender" ELSE "AddDrone",
           id |-> e.nbrs[k],
           sender |-> threads[EntryOf(cfg, e.nbrs[k])].packet_rx]]

IsPrefix(p, q) == Len(p) <= Len(q) /\ \A k \in DOMAIN p : p[k] = q[k]

\* C15: for every node A of a validated Config, network_init sends on A's
\* command channel exactly one command per entry B of A's declared neighbor
\* list, no more and no fewer, each carrying id B and the send end of B's
\* own packet channel, of the variant of A's kind (DroneCommand::AddSender,
\* ClientCommand::AddDrone, ServerCommand::AddDrone): what has been sent is
\* at every moment a prefix of these commands, and all of them at return.
C15_OneCommandPerDeclaredNeighbor ==
    (Validated(config) /\ SpawnLoopsLeft) =>
        \A i \in DOMAIN threads :
            /\ IsPrefix(CommandsSentOn(threads[i].command_rx),
                        CommandsOwed(config, i))
            /\ ipc = "returned" =>
                  CommandsSentOn(threads[i].command_rx) = CommandsOwed(config, i)

\* network_init has returned after sending commands to drones and a server.
C15_Witness ==
    /\ ipc = "returned"
    /\ Validated(config)
    /\ {sent[k].cmd.enum : k \in DOMAIN sent} = {"DroneCommand", "ServerCommand"}

----------------------------------------------------------------------------
\* network_init: the topology returned

KindOfType(type) ==
    CASE type = "Drone" -> "drone"
      [] type = "Client" -> "client"
      [] type = "Server" -> "server"
      [] OTHER -> "none"

\* C16: at return of network_init, slot i of the topology has a kind other
\* than None if and only if i is an id declared in the Config, the kind
\* being the one i was declared under, and its NeighborSet is the set of
\* the ids in node i's declared neighbor list; the slots of undeclared ids
\* have an empty NeighborSet.
C16_TopologyMatchesConfig ==
    ipc = "returned" =>
        \A n \in NodeIds :
            /\ topology[n].node_type.type # "None" <=> n \in Declared(config)
            /\ topology[n].neighbors = Listed(config, n)
            /\ n \notin Declared(config) => topology[n].neighbors = {}
            /\ (UniqueIds(config) /\ n \in Declared(config)) =>
                  AllEntries(config)[EntryOf(config, n)].kind
                     = KindOfType(topology[n].node_type.type)

\* network_init has returned a topology with drones and a server.
C16_Witness ==
    /\ ipc = "returned"
    /\ {topology[n].node_type.type : n \in NodeIds} = {"None", "Drone", "Server"}
    /\ \E n \in NodeIds : Cardinality(topology[n].neighbors) >= 2

----------------------------------------------------------------------------
\* network_init: distribution of the variants

RECURSIVE SumOver(_, _)
SumOver(f, S) ==
    IF S = {} THEN 0
    ELSE LET k == Least(S) IN f[k] + SumOver(f, S \ {k})
Total(distro) == SumOver(distro, DOMAIN distro)

\* The number of threads of a kind spawned so far.
Spawned(kind) == Cardinality({c \in DOMAIN threads : threads[c].kind = kind})

\* C17: at return of network_init the drone-variant counters sum to the
\* number of drones of the Config, the client-type counters to the number
\* of clients and the server-type counters to the number of servers; at any
\* moment of the spawn loops each sum is the number of nodes of the kind
\* spawned so far.
C17_DistributionTotals ==
    /\ Total(distros.drone) = Spawned("drone")
    /\ Total(distros.client) = Spawned("client")
    /\ Total(distros.server) = Spawned("server")
    /\ SpawnLoopsLeft =>
          /\ Total(distros.drone) = Len(config.drone)
          /\ Total(distros.client) = Len(config.client)
          /\ Total(distros.server) = Len(config.server)

\* network_init has returned with more servers counted than there are
\* server types.
C17_Witness ==
    /\ ipc = "returned"
    /\ Total(distros.server) > MAX_SERVER_TYPES

\* The variant recorded in a topology slot.
VariantOf(node_type) ==
    CASE node_type.type = "Drone" -> node_type.impl
      [] node_type.type = "Client" -> node_type.client_type
      [] node_type.type = "Server" -> node_type.server_type

VariantsOfKind(kind) ==
    CASE kind = "drone" -> MAX_IMPL
      [] kind = "client" -> MAX_CLIENT_TYPES
      [] kind = "server" -> MAX_SERVER_TYPES

\* The position, from 0, of thread c among the threads of its kind.
RankInKind(c) ==
    Cardinality({d \in 1 .. (c - 1) : threads[d].kind = threads[c].kind})

\* C18: the k-th node of a kind, from 0 in declaration order, is given
\* variant k mod N, N being the number of variants of the kind; the variant
\* index stays below N; and any two counters of a kind differ by at most 1.
C18_RoundRobin ==
    /\ UniqueIds(config) =>
          \A c \in DOMAIN threads :
              VariantOf(topology[threads[c].id].node_type)
                 = RankInKind(c) % VariantsOfKind(threads[c].kind)
    /\ \A k \in DOMAIN list_gui_channels :
          \E c \in DOMAIN threads :
              /\ threads[c].kind = "client" /\ RankInKind(c) = k - 1
              /\ list_gui_channels[k].client_type = (k - 1) % MAX_CLIENT_TYPES
    /\ indexes.drone \in DOMAIN distros.drone
    /\ indexes.client \in DOMAIN distros.client
    /\ indexes.server \in DOMAIN distros.server
    /\ \A kind \in DOMAIN distros : \A a, b \in DOMAIN distros[kind] :
          distros[kind][a] - distros[kind][b] <= 1

\* More drones than there are drone implementations have been spawned, the
\* last one with the first implementation again.
C18_Witness ==
    /\ ipc = "returned"
    /\ Len(config.drone) = MAX_IMPL + 1
    /\ topology[config.drone[MAX_IMPL + 1].id].node_type.impl = 0

----------------------------------------------------------------------------
\* Validate, then initialize

\* The number of entries of all neighbor lists of cfg.
NeighborEntries(cfg) ==
    LET E == AllEntries(cfg)
        n == [i \in DOMAIN E |-> Len(E[i].nbrs)]
    IN SumOver(n, DOMAIN n)

\* Nothing of network_init has happened: no thread, no channel, no command.
NothingSpawned ==
    /\ threads = <<>>
    /\ command_channels = <<>>
    /\ sent = <<>>
    /\ list_gui_channels = <<>>
    /\ \A n \in NodeIds :
          /\ senders[n] = NoCommand
          /\ packet_send_map[n] = NoSender
          /\ topology[n].node_type = NoNodeType

\* C19: network_validate returns a Config only if the file was read and
\* parsed and validate_config returned Ok, and a single error otherwise;
\* on an error the caller ends with that error and nothing is spawned and
\* no channel created; on a Config network_init runs without a panic and
\* what it returns is fully spawned and wired.
C19_NoPartialSuccess ==
    /\ ipc = "validate" => NothingSpawned
    /\ ipc # "validate" =>
          /\ result = OK <=> (file = "parsed" /\ AllInvariants(config))
          /\ result = OK <=> (file = "parsed" /\ validate_config(config) = OK)
          /\ result # OK =>
                /\ ipc = "rejected"
                /\ result.msg \in ErrorMsgs
                                  \cup {MsgUnableToRead, MsgFailedToDeserialize}
                /\ NothingSpawned
          /\ result = OK => ipc \in Range(Phases) \cup {"returned"}
          /\ ipc = "returned" =>
                /\ AllSpawned(config)
                /\ Len(sent) = NeighborEntries(config)
                /\ \A n \in NodeIds : topology[n].neighbors = Listed(config, n)

\* A Config that was read and parsed has been rejected by validate_config.
C19_Witness ==
    /\ ipc = "rejected"
    /\ file = "parsed"
    /\ result.msg \in ErrorMsgs
    /\ Len(AllIds(config)) >= 2

----------------------------------------------------------------------------
\* Sends that fail

\* C20: when a send of the wiring loops fails, the thread at the other end
\* having dropped its command-receive end, network_init (on a validated
\* Config) does not abort: the edge is in the topology, the loops go on,
\* and at return every command has been attempted and the topology is
\* complete.
C20_SendErrorsSwallowed ==
    Validated(config) =>
        /\ \A k \in DOMAIN sent :
              ~sent[k].ok =>
                  /\ sent[k].cmd.id \in topology[threads[sent[k].chan].id].neighbors
                  /\ ipc \in WirePhases \cup {"assembly", "returned"}
        /\ ipc = "returned" =>
              /\ Len(sent) = NeighborEntries(config)
              /\ \A n \in NodeIds : topology[n].neighbors = Listed(config, n)

\* network_init has returned after a send that failed and a later one that
\* did not.
C20_Witness ==
    /\ ipc = "returned"
    /\ Validated(config)
    /\ \E k, l \in DOMAIN sent : k < l /\ ~sent[k].ok /\ sent[l].ok


----------------------------------------------------------------------------
\* network_init: termination

\* C21: network_init terminates without waiting on any spawned node.  On a
\* Config validate_config accepts, it reaches the assembly and returns
\* after finitely many of its own steps under every scheduling of the node
\* threads, those in which no thread ever runs or takes a command included:
\* no step of network_init waits for a thread.
C21_TerminatesUnderEverySchedule == <>(ipc = "returned")

\* network_init has returned after sending commands, and no thread has run,
\* ended or taken a command.
C21_Witness ==
    /\ ipc = "returned"
    /\ Len(sent) >= 2
    /\ \A c \in DOMAIN threads :
          /\ threads[c].alive /\ ~threads[c].ran
          /\ threads[c].table = EmptyTable
          /\ Len(command_channels[c].queue)
                = Cardinality({k \in DOMAIN sent : sent[k].chan = c})

----------------------------------------------------------------------------
\* Validation: idempotence

----------------------------------------------------------------------------
\* network_init: what the result holds

\* C23: at return of network_init, list_gui_channels holds one entry per
\* client of the Config, in the order the clients are declared, and so no
\* entry for a drone or a server; and, the ids being unique, the client
\* type of each entry is the one stored in the topology slot of its client.
C23_GuiChannelsPerClient ==
    ipc = "returned" =>
        /\ Len(list_gui_channels) = Len(config.client)
        /\ \A k \in DOMAIN list_gui_channels :
              /\ list_gui_channels[k].id = config.client[k].id
              /\ threads[list_gui_channels[k].gui].kind = "client"
              /\ threads[list_gui_channels[k].gui].id = config.client[k].id
              /\ UniqueIds(config) =>
                    /\ topology[config.client[k].id].node_type
                          = [type |-> "Client",
                             client_type |-> list_gui_channels[k].client_type]
                    /\ \A e \in Range(config.drone) \cup Range(config.server) :
                          e.id # list_gui_channels[k].id

\* network_init has returned on a Config of a drone, a client and a server.
C23_Witness ==
    /\ ipc = "returned"
    /\ Len(list_gui_channels) = 1
    /\ config.drone # <<>>
    /\ config.server # <<>>

\* The kind of node a variant of Command is for.
TypeOfCommand(enum) ==
    CASE enum = "DroneCommand" -> "Drone"
      [] enum = "ClientCommand" -> "Client"
      [] enum = "ServerCommand" -> "Server"
      [] OTHER -> "None"

\* C24: at return of network_init, on a validated Config as on any other,
\* for every id i the variant of senders[i] agrees with the kind of
\* topology[i] (DroneCommand with Drone, ClientCommand with Client,
\* ServerCommand with Server, Command::None with NodeType::None), and
\* packet_send_map[i] is Some exactly when the kind of topology[i] is not
\* None.
C24_ControlTableAgreesWithTopology ==
    ipc = "returned" =>
        \A n \in NodeIds :
            /\ TypeOfCommand(senders[n].enum) = topology[n].node_type.type
            /\ packet_send_map[n].some <=> topology[n].node_type.type # "None"

\* network_init has returned on a validated Config of drones and a server.
C24_Witness ==
    /\ ipc = "returned"
    /\ Validated(config)
    /\ {senders[n].enum : n \in NodeIds}
          = {"None", "DroneCommand", "ServerCommand"}

\* The threads holding the receive end of command channel ch, of packet
\* channel ch.
CommandReceivers(ch) == {c \in DOMAIN threads : threads[c].command_rx = ch}
PacketReceivers(ch) == {c \in DOMAIN threads : threads[c].packet_rx = ch}

\* C25: single receiver per channel.  In every state, the receive end of
\* the command channel and that of the packet channel created for a node
\* are held by the thread of that node and by no other thread; the tables
\* of network_init and the commands hold send ends only, those of channels
\* that exist, and a send end may be held in several places.
C25_SingleReceiver ==
    /\ DOMAIN command_channels = DOMAIN threads
    /\ \A ch \in DOMAIN command_channels :
          /\ CommandReceivers(ch) = {ch}
          /\ PacketReceivers(ch) = {ch}
    /\ \A n \in NodeIds :
          /\ senders[n].enum # "None" =>
                /\ senders[n].chan \in DOMAIN threads
                /\ threads[senders[n].chan].id = n
          /\ packet_send_map[n].some =>
                /\ packet_send_map[n].chan \in DOMAIN threads
                /\ threads[packet_send_map[n].chan].id = n

\* The send end of a node's packet channel is held by packet_send_map and
\* by the table of a neighbor, the node's thread holding the receive end.
C25_Witness ==
    \E c, d \in DOMAIN threads :
        /\ c # d
        /\ threads[c].alive /\ threads[c].packet_rx = c
        /\ packet_send_map[threads[c].id] = [some |-> TRUE, chan |-> c]
        /\ threads[d].table[threads[c].id] = c

----------------------------------------------------------------------------
\* network_init: no wiring barrier

\* Thread c has every declared neighbor of its node in its table.
FullyWired(c) ==
    /\ Listed(config, threads[c].id) # {}
    /\ \A b \in Listed(config, threads[c].id) : threads[c].table[b] # 0

\* C26: there is no wiring barrier.  In every state a spawned thread that
\* is alive can take a step of its run loop, whatever network_init has sent
\* and whatever its table holds; so a node with declared neighbors runs
\* while its table is still empty, and one node is fully wired while
\* another has not been sent any command.
C26_NoWiringBarrier ==
    \A c \in DOMAIN threads :
        (threads[c].alive /\ ~threads[c].ran) => ENABLED ThreadRuns(c)

\* During the wiring, a node with declared neighbors has run with an empty
\* table, a second node is fully wired, and a third one, with declared
\* neighbors, has not been sent any command.
C26_Witness ==
    /\ ipc \in WirePhases
    /\ \E a, b, c \in DOMAIN threads :
          /\ threads[a].ran /\ threads[a].table = EmptyTable
          /\ Listed(config, threads[a].id) # {}
          /\ FullyWired(b)
          /\ c # b
          /\ Listed(config, threads[c].id) # {}
          /\ CommandsSentOn(c) = <<>>

----------------------------------------------------------------------------
\* network_init: the assignment of the variants is scoped to the call

\* The kind and variant the Config alone gives to slot n, its ids being
\* unique: the entry of id n, with the variant of its rank among the
\* entries of its kind.
ExpectedNodeType(cfg, n) ==
    IF n \notin Declared(cfg) THEN NoNodeType
    ELSE LET E == AllEntries(cfg)
             i == EntryOf(cfg, n)
             rank == Cardinality({k \in 1 .. (i - 1) : E[k].kind = E[i].kind})
         IN CASE E[i].kind = "drone" ->
                   [type |-> "Drone", pdr |-> E[i].pdr, impl |-> rank % MAX_IMPL]
              [] E[i].kind = "client" ->
                   [type |-> "Client", client_type |-> rank % MAX_CLIENT_TYPES]
              [] E[i].kind = "server" ->
                   [type |-> "Server", server_type |-> rank % MAX_SERVER_TYPES]

\* The counters the Config alone gives: of n nodes of a kind with N
\* variants, variant v is given to the nodes of rank v, v + N, v + 2N, ...
ExpectedCounters(n, N) ==
    [v \in 0 .. (N - 1) |-> Cardinality({k \in 0 .. (n - 1) : k % N = v})]
ExpectedDistros(cfg) ==
    [drone |-> ExpectedCounters(Len(cfg.drone), MAX_IMPL),
     client |-> ExpectedCounters(Len(cfg.client), MAX_CLIENT_TYPES),
     server |-> ExpectedCounters(Len(cfg.server), MAX_SERVER_TYPES)]

\* C27: the assignment of the variants is scoped to one call.  At return
\* of every call of network_init, the first or one made after an earlier
\* call on the same Config whose threads still run, and under every
\* scheduling of the threads, the kind and variant of every topology slot
\* and the distribution counters are the ones the Config alone determines;
\* so two calls produce the same.
C27_SameAssignmentEveryCall ==
    (ipc = "returned" /\ UniqueIds(config)) =>
        /\ \A n \in NodeIds :
              topology[n].node_type = ExpectedNodeType(config, n)
        /\ distros = ExpectedDistros(config)

\* A second call has returned, a thread of the first call having run and
\* still being alive.
C27_Witness ==
    /\ ipc = "returned"
    /\ config.drone # <<>>
    /\ Len(threads) = 2 * Len(AllIds(config))
    /\ threads[1].alive /\ threads[1].ran

----------------------------------------------------------------------------
\* Validation: a client or server between two clusters of drones

\* The drones reached from drone a over drone-to-drone edges.
DroneCluster(cfg, a) ==
    Reachable(Adjacency(cfg, DeclaredDrones(cfg)), {a})

\* The clients and servers of cfg that list two drones of different
\* clusters.
Links(cfg) ==
    LET E == AllEntries(cfg)
    IN {i \in DOMAIN E :
           /\ E[i].kind # "drone"
           /\ \E a, b \in Range(E[i].nbrs) \cap DeclaredDrones(cfg) :
                 b \notin DroneCluster(cfg, a)}

\* C28, as the code has it: a Config in which every other invariant holds
\* and a client or server links two clusters of drones that no
\* drone-to-drone edge joins is rejected by validate_config, with the 'not
\* all on the edge' error; a Config in which every other invariant holds
\* and no client or server is such a link is accepted, whatever the number
\* of drones its clients and servers list.
C28_LinkOfTwoClustersRejected ==
    (Done /\ PassesUpToConnectivity(config)) =>
        IF Links(config) # {}
        THEN result = Err(MsgNotOnEdge, <<>>)
        ELSE result = OK

\* C28, as stated: a Config in which every other invariant holds and a
\* client or server is the only link between two clusters of drones is
\* accepted by validate_config.
C28_OnlyLinkAccepted ==
    (Done /\ PassesUpToConnectivity(config)
          /\ Cardinality(Links(config)) = 1) => result = OK

\* A Config in which every other invariant holds and one server is the
\* only link between two clusters of drones has been rejected.
C28_Witness ==
    /\ Done
    /\ PassesUpToConnectivity(config)
    /\ Cardinality(Links(config)) = 1
    /\ \A i \in Links(config) : AllEntries(config)[i].kind = "server"
    /\ result = Err(MsgNotOnEdge, <<>>)

----------------------------------------------------------------------------
\* network_init: the unwrap of packet_send_map[neighbor]

\* Every neighbor id of every node of cfg is the id of a declared node.
AllNeighborsDeclared(cfg) ==
    LET E == AllEntries(cfg)
    IN \A i \in DOMAIN E : Range(E[i].nbrs) \subseteq Declared(cfg)

\* The neighbor the wiring loops are at.
CurrentNeighbor ==
    PhaseEntries(config, PhaseIndex(ipc))[i_node].nbrs[i_nbr]

\* C29: validated Configs are safe to initialize.  When network_validate
\* has returned Ok, every neighbor id of every node is the id of a declared
\* node; at every body of a wiring loop the slot packet_send_map[neighbor]
\* is Some; and network_init never panics.
C29_ValidatedNeverPanics ==
    result = OK =>
        /\ AllNeighborsDeclared(config)
        /\ ipc # "panicked"
        /\ ipc \in WirePhases => packet_send_map[CurrentNeighbor].some

\* On a validated Config the wiring loops have come to the servers, the
\* lookups made for the drones having found a send end.
C29_Witness ==
    /\ result = OK
    /\ ipc = "wire_servers"
    /\ sent # <<>>
    /\ packet_send_map[CurrentNeighbor].some

\* Entry i of cfg is wired: the command stored last under its id is of its
\* kind, no later entry of another kind having the same id.
Wired(cfg, i) ==
    LET E == AllEntries(cfg)
        last == CHOOSE k \in DOMAIN E :
                    /\ E[k].id = E[i].id
                    /\ \A j \in DOMAIN E : E[j].id = E[i].id => j <= k
    IN E[last].kind = E[i].kind

\* The entries at which network_init panics: those wired and listing an
\* id that is not declared.
PanicEntries(cfg) ==
    LET E == AllEntries(cfg)
    IN {i \in DOMAIN E :
           Wired(cfg, i) /\ ~(Range(E[i].nbrs) \subseteq Declared(cfg))}

\* C30, as the code has it: network_init does not validate.  Called on a
\* Config in which a node lists an id that is not declared, the id of the
\* node not being declared again under another kind, it never returns: it
\* spawns every node thread and then panics at the unwrap during wiring,
\* after which it takes no step, while the threads it spawned can still run
\* and take the commands sent so far.  It panics on no other Config: where
\* every node listing an undeclared id has its own id declared again under
\* another kind, the unwrap is not reached.
C30_PanicsAtUnwrapAfterSpawning ==
    /\ PanicEntries(config) # {} => ipc # "returned"
    /\ ipc = "panicked" =>
          /\ PanicEntries(config) # {}
          /\ AllSpawned(config)
          /\ ~ENABLED NetworkInitStep
          /\ \A c \in DOMAIN threads :
                /\ (threads[c].alive /\ ~threads[c].ran) => ENABLED ThreadRuns(c)
                /\ (threads[c].alive /\ command_channels[c].queue # <<>>) =>
                      ENABLED ThreadAddsNeighbor(c)

\* C30, as stated: called on a Config in which some node lists an id that
\* is not declared, network_init does not return.
C30_AnyUndeclaredNeighborPanics ==
    ~AllNeighborsDeclared(config) => ipc # "returned"

\* network_init has panicked; a thread it spawned has run and holds one of
\* its two neighbors in its table.
C30_Witness ==
    /\ ipc = "panicked"
    /\ \E c \in DOMAIN threads :
          /\ threads[c].alive /\ threads[c].ran
          /\ threads[c].table # EmptyTable
          /\ ~FullyWired(c)

----------------------------------------------------------------------------
\* Validation: the early return of validate_edges_clients_servers

\* C31: every Config other than the empty one that validate_config accepts
\* has a drone; so validate_edges_clients_servers is entered with
\* n_drones = 0, and leaves by its early return, for the empty Config only.
C31_AcceptedNonEmptyHasDrone ==
    /\ (Done /\ result = OK /\ config # EmptyConfig) => config.drone # <<>>
    /\ (pc = "edges" /\ (n_nodes = 0 \/ n_drones = 0)) => config = EmptyConfig

\* A Config of drones, a client and a server has been accepted; the check
\* of the edges was entered with a drone count above 0.
C31_Witness ==
    /\ Done /\ result = OK
    /\ config.client # <<>> /\ config.server # <<>>
    /\ n_drones = Len(config.drone) /\ n_drones > 0

----------------------------------------------------------------------------
\* The empty Config

\* C32: the empty Config is accepted by validate_config, and network_init
\* on it spawns no node, sends no command, and returns a result whose
\* topology slots are all None, whose counters are all zero and whose list
\* of GUI channels is empty.
C32_EmptyConfig ==
    (file = "parsed" /\ config = EmptyConfig) =>
        /\ ipc \in {"validate", "assembly", "returned"}
        /\ ipc # "validate" => result = OK
        /\ threads = <<>>
        /\ command_channels = <<>>
        /\ sent = <<>>
        /\ \A n \in NodeIds :
              /\ topology[n] = [node_type |-> NoNodeType, neighbors |-> {}]
              /\ senders[n] = NoCommand
              /\ packet_send_map[n] = NoSender
        /\ \A kind \in DOMAIN distros : \A v \in DOMAIN distros[kind] :
              distros[kind][v] = 0
        /\ list_gui_channels = <<>>

\* network_init has returned on the empty Config, which was accepted.
C32_Witness ==
    /\ file = "parsed"
    /\ config = EmptyConfig
    /\ result = OK
    /\ ipc = "returned"

----------------------------------------------------------------------------
\* Validation: the assertion on the node count

\* C33: the assertion of validate_config, that the number of the ids
\* inserted is the number of drones, clients and servers, holds whenever it
\* is reached, for every Config: it never fails, and past it the count is
\* the number of entries, the ids inserted are those declared, and no id
\* is declared twice.
C33_NodeCountAssertionHolds ==
    /\ result.msg # MsgAssert
    /\ pc \in {"kinds", "graph", "bidirectional", "connected", "edges"} =>
          /\ n_nodes = Len(config.drone) + Len(config.client)
                          + Len(config.server)
          /\ Cardinality(node_ids) = n_nodes
          /\ node_ids = Declared(config)
          /\ UniqueIds(config)

\* The assertion has just been passed on a Config with entries of the
\* three kinds.
C33_Witness ==
    /\ pc = "kinds"
    /\ config.drone # <<>> /\ config.client # <<>> /\ config.server # <<>>
    /\ n_nodes = Len(AllIds(config))

----------------------------------------------------------------------------
\* Validation: the two breadth-first traversals

\* The traversal of validate_connected_graph and that of
\* validate_edges_clients_servers on the graph and the id sets of the
\* state, from the start node each of them takes.
ConnectedTraversal ==
    LET start_node == Head(Ones(node_ids))
    IN BfsTrace(graph, NodeIds, <<start_node>>, {start_node}, 0, <<start_node>>)
EdgesTraversal ==
    LET start_drone == Head(Ones(drone_ids))
    IN BfsTrace(graph, drone_ids, <<start_drone>>, {start_drone}, 0,
                <<start_drone>>)

\* The traversal t pushed no node twice, pushed nodes of S only, popped
\* what it pushed, and counted no more than n nodes.
BoundedTraversal(t, S, n) ==
    /\ Injective(t.pushed)
    /\ Range(t.pushed) \subseteq S
    /\ t.n_visited = Len(t.pushed)
    /\ t.n_visited <= n

\* C34: both breadth-first traversals terminate for every Config that
\* passed the bidirectionality check.  In the traversal of
\* validate_connected_graph each declared node is pushed on the queue at
\* most once, only declared nodes are pushed, and n_visited ends at no more
\* than n_nodes; in that of validate_edges_clients_servers the same holds
\* with the drones and n_drones.
C34_TraversalsBounded ==
    /\ (pc = "connected" /\ n_nodes # 0) =>
          /\ BoundedTraversal(ConnectedTraversal, node_ids, n_nodes)
          /\ ConnectedTraversal.n_visited
                = Bfs(graph, NodeIds, <<Head(Ones(node_ids))>>,
                      {Head(Ones(node_ids))}, 0)
    /\ (pc = "edges" /\ n_nodes # 0 /\ n_drones # 0) =>
          /\ BoundedTraversal(EdgesTraversal, drone_ids, n_drones)
          /\ EdgesTraversal.n_visited
                = Bfs(graph, drone_ids, <<Head(Ones(drone_ids))>>,
                      {Head(Ones(drone_ids))}, 0)

\* The traversal of the drones is about to run on a graph with a cycle of
\* three drones and with clients or servers, that of all the nodes having
\* pushed every node once.
C34_Witness ==
    /\ pc = "edges"
    /\ n_drones >= 3 /\ n_nodes > n_drones
    /\ \E a, b, c \in drone_ids :
          /\ a # b /\ b # c /\ a # c
          /\ b \in graph[a] /\ c \in graph[b] /\ a \in graph[c]
    /\ Len(ConnectedTraversal.pushed) = n_nodes
    /\ Len(EdgesTraversal.pushed) = n_drones

----------------------------------------------------------------------------
\* network_init: what a node is sent and installs

\* The neighbor ids thread c has been sent, and those it has installed.
SentIds(c) == {CommandsSentOn(c)[k].id : k \in DOMAIN CommandsSentOn(c)}
InstalledIds(c) == {b \in NodeIds : threads[c].table[b] # 0}

\* Send end s delivers to the packet channel of the node of id b.
DeliversTo(s, b) ==
    /\ s \in DOMAIN threads
    /\ threads[s].id = b
    /\ threads[s].packet_rx = s

\* C35: in every state after network_init starts on a validated Config,
\* the neighbor ids a node has been sent, and those it has installed a send
\* end for, are among the ids of its declared neighbor list; each such send
\* end delivers to the packet channel of the neighbor it is keyed by; and a
\* node has an empty table as long as it has been sent nothing.
C35_OnlyDeclaredNeighborsInstalled ==
    Validated(config) =>
        \A c \in DOMAIN threads :
            /\ SentIds(c) \subseteq Listed(config, threads[c].id)
            /\ InstalledIds(c) \subseteq SentIds(c)
            /\ \A k \in DOMAIN CommandsSentOn(c) :
                  DeliversTo(CommandsSentOn(c)[k].sender, CommandsSentOn(c)[k].id)
            /\ \A b \in InstalledIds(c) : DeliversTo(threads[c].table[b], b)
            /\ CommandsSentOn(c) = <<>> => threads[c].table = EmptyTable

\* On a validated Config a node has installed the send end of one neighbor
\* and has that of another waiting on its command channel, a node spawned
\* after it still having an empty table.
C35_Witness ==
    /\ Validated(config)
    /\ \E c, d \in DOMAIN threads :
          /\ c < d
          /\ Cardinality(InstalledIds(c)) = 1
          /\ Cardinality(SentIds(c)) = 2
          /\ command_channels[c].queue # <<>>
          /\ threads[d].table = EmptyTable

----------------------------------------------------------------------------
\* network_init: symmetry of the topology returned

\* The undirected edges of cfg: the pairs of ids one of which lists the
\* other.
UndirectedEdges(cfg) ==
    {{a, b} : <<a, b>> \in {p \in Declared(cfg) \X NodeIds :
                               p[2] \in Listed(cfg, p[1])}}

\* C36: for every validated Config, the topology network_init returns is
\* symmetric, j being in the NeighborSet of slot i if and only if i is in
\* that of slot j, and the number of AddSender/AddDrone commands sent is
\* twice the number of undirected edges.
C36_SymmetricTopology ==
    (ipc = "returned" /\ Validated(config)) =>
        /\ \A i, j \in NodeIds :
              j \in topology[i].neighbors <=> i \in topology[j].neighbors
        /\ Len(sent) = 2 * Cardinality(UndirectedEdges(config))

\* network_init has returned on the validated Config of two drones and a
\* server, with its three edges.
C36_Witness ==
    /\ ipc = "returned"
    /\ Validated(config)
    /\ Cardinality(UndirectedEdges(config)) = 3
    /\ config.server # <<>>
    /\ Len(sent) = 6
----------------------------------------------------------------------------
\* The hash-map validator of src/src/utils_.rs.  Graph is an
\* AHashMap<NodeId, AHashSet<NodeId>>, modelled as a function whose DOMAIN is
\* the set of keys.  The iteration order of a hash map or hash set is not
\* fixed, so each check below yields the set of the results it can produce
\* over the orders; the loops over the Vecs of the Config keep their order.

UtilsMsgDuplicateId == "Duplicate node ID found: {}"
UtilsMsgInvalidPdr == "Invalid PDR for drone {}: {}"
UtilsMsgDroneSelf == "Drone {} is connected to itself"
UtilsMsgDroneDupNbr == "Duplicate connection for drone {}: {}"
UtilsMsgClientZero == "Client {} is connected to 0 drones"
UtilsMsgClientMany == "Client {} has more than 2 neighbors"
UtilsMsgClientSelf == "Client {} is connected to itself"
UtilsMsgClientDupNbr == "Duplicate connection for client {}: {}"
UtilsMsgServerFew == "Server {} is connected to fewer than 2 drones"
UtilsMsgServerSelf == "Server {} is connected to itself"
UtilsMsgServerDupNbr == "Duplicate connection in server {}: {}"
UtilsMsgClientNotDrone == "Client {} is connected to a node which is not a drone"
UtilsMsgServerNotDrone == "Server {} is connected to a node which is not a drone"
UtilsMsgNotExist == "Node {} has as neighbor a non existent node in the topology: {}"
UtilsMsgNotBidirectional == "The topology does not represent a bidirectional graph: node {} is reachable from {}, but not viceversa"
UtilsMsgNotConnected == "The network topology is not entirely bidirectional"
UtilsMsgNotOnEdge == "Clients and servers are not completely at the edges of the network topology"
UtilsMsgAssert == "panic: assert_eq(node_ids.len(), drone.len + client.len + server.len) failed"
UtilsMsgUnwrapNone == "panic: called Option::unwrap() on a None value"

UtilsPanics == {UtilsMsgAssert, UtilsMsgUnwrapNone}

utils_validate_drone(drone) ==
    IF drone.pdr < 0 \/ drone.pdr > PdrScale
    THEN Err(UtilsMsgInvalidPdr, <<drone.id, drone.pdr>>)
    ELSE ScanNeighbors(UtilsMsgDroneSelf, UtilsMsgDroneDupNbr, drone.id,
                       drone.connected_node_ids, 1, {})

utils_validate_client(client) ==
    IF Len(client.connected_drone_ids) = 0
    THEN Err(UtilsMsgClientZero, <<client.id>>)
    ELSE IF Len(client.connected_drone_ids) > 2
    THEN Err(UtilsMsgClientMany, <<client.id>>)
    ELSE ScanNeighbors(UtilsMsgClientSelf, UtilsMsgClientDupNbr, client.id,
                       client.connected_drone_ids, 1, {})

utils_validate_server(server) ==
    IF Len(server.connected_drone_ids) < 2
    THEN Err(UtilsMsgServerFew, <<server.id>>)
    ELSE ScanNeighbors(UtilsMsgServerSelf, UtilsMsgServerDupNbr, server.id,
                       server.connected_drone_ids, 1, {})

UtilsCheckEntry(kind, entry) ==
    CASE kind = "drone" -> utils_validate_drone(entry)
      [] kind = "client" -> utils_validate_client(entry)
      [] kind = "server" -> utils_validate_server(entry)

\* One of the three loops of utils_.rs validate_config over entries[i..]:
\* the entry's own check, then node_ids.insert(id), a duplicate being an Err.
RECURSIVE UtilsEntryLoop(_, _, _, _)
UtilsEntryLoop(kind, entries, i, ids) ==
    IF i > Len(entries) THEN [err |-> OK, ids |-> ids]
    ELSE LET r == UtilsCheckEntry(kind, entries[i]) IN
         IF r # OK THEN [err |-> r, ids |-> ids]
         ELSE IF entries[i].id \in ids
         THEN [err |-> Err(UtilsMsgDuplicateId, <<entries[i].id>>), ids |-> ids]
         ELSE UtilsEntryLoop(kind, entries, i + 1, ids \cup {entries[i].id})

RECURSIVE UtilsNeighborsAreDrones(_, _, _, _, _)
UtilsNeighborsAreDrones(msg, entries, i, j, drones) ==
    IF i > Len(entries) THEN OK
    ELSE IF j > Len(entries[i].connected_drone_ids)
    THEN UtilsNeighborsAreDrones(msg, entries, i + 1, 1, drones)
    ELSE IF entries[i].connected_drone_ids[j] \notin drones
    THEN Err(msg, <<entries[i].id>>)
    ELSE UtilsNeighborsAreDrones(msg, entries, i, j + 1, drones)

utils_validate_all_neighbors_are_drones(cfg, drones) ==
    LET c == UtilsNeighborsAreDrones(UtilsMsgClientNotDrone, cfg.client, 1, 1, drones) IN
    IF c # OK THEN c
    ELSE UtilsNeighborsAreDrones(UtilsMsgServerNotDrone, cfg.server, 1, 1, drones)

\* graph.entry(id) is reached once per listed neighbor, so a node whose
\* neighbor list is empty gets no key.
utils_compute_init_graph(cfg) ==
    LET listed == compute_init_graph(cfg)
    IN [n \in {k \in NodeIds : listed[k] # {}} |-> listed[n]]

\* The results of the scan over the edges [node] -> [id]: any edge that
\* fails is the first one met under some iteration order.
utils_validate_bidirectional_graph(g) ==
    LET bad == {Err(UtilsMsgNotExist, <<node, id>>) :
                    <<node, id>> \in {e \in (DOMAIN g) \X NodeIds :
                        e[2] \in g[e[1]] /\ e[2] \notin DOMAIN g}}
               \cup
               {Err(UtilsMsgNotBidirectional, <<id, node>>) :
                    <<node, id>> \in {e \in (DOMAIN g) \X NodeIds :
                        /\ e[2] \in g[e[1]]
                        /\ e[2] \in DOMAIN g
                        /\ e[1] \notin g[e[2]]}}
    IN IF bad = {} THEN {OK} ELSE bad

\* compute_dfs_ (and compute_dfs, with every node allowed): visited.insert,
\* then graph.get(&node).unwrap(), then the loop over the neighbors.  The
\* neighbors are taken in ascending order: the set visited and the unwrap
\* reached do not depend on the order.
RECURSIVE utils_compute_dfs_(_, _, _, _)
RECURSIVE UtilsDfsLoop(_, _, _, _)
utils_compute_dfs_(g, node, visited, allowed) ==
    IF node \notin DOMAIN g
    THEN [panicked |-> TRUE, visited |-> visited \cup {node}]
    ELSE UtilsDfsLoop(g, Ones(g[node]), visited \cup {node}, allowed)

UtilsDfsLoop(g, todo, visited, allowed) ==
    IF todo = <<>> THEN [panicked |-> FALSE, visited |-> visited]
    ELSE LET v == Head(todo) IN
         IF v \notin visited /\ v \in allowed
         THEN LET r == utils_compute_dfs_(g, v, visited, allowed) IN
              IF r.panicked THEN r
              ELSE UtilsDfsLoop(g, Tail(todo), r.visited, allowed)
         ELSE UtilsDfsLoop(g, Tail(todo), visited, allowed)

utils_compute_dfs(g, node, visited) == utils_compute_dfs_(g, node, visited, NodeIds)

\* graph.keys().next() is any key.
utils_validate_connected_graph(g) ==
    IF Cardinality(DOMAIN g) = 0 THEN {OK}
    ELSE {LET r == utils_compute_dfs(g, node, {}) IN
          IF r.panicked THEN Err(UtilsMsgUnwrapNone, <<node>>)
          ELSE IF Cardinality(DOMAIN g) = Cardinality(r.visited) THEN OK
          ELSE Err(UtilsMsgNotConnected, <<>>) : node \in DOMAIN g}

\* drone_ids.iter().next() is any drone id, and None when there is none.
utils_validate_edges_clients_servers(g, drones) ==
    IF Cardinality(DOMAIN g) = 0 THEN {OK}
    ELSE IF drones = {} THEN {Err(UtilsMsgUnwrapNone, <<>>)}
    ELSE {LET r == utils_compute_dfs_(g, node, {}, drones) IN
          IF r.panicked THEN Err(UtilsMsgUnwrapNone, <<node>>)
          ELSE IF Cardinality(drones) = Cardinality(r.visited) THEN OK
          ELSE Err(UtilsMsgNotOnEdge, <<>>) : node \in drones}

\* `first?; rest`: the errors of first, and the results of rest when first
\* can be Ok.
UtilsThen(first, rest) == (first \ {OK}) \cup (IF OK \in first THEN rest ELSE {})

\* The results validate_config of utils_.rs can return on cfg, a panic being
\* a result whose msg is in UtilsPanics.
utils_validate_config(cfg) ==
    LET d == UtilsEntryLoop("drone", cfg.drone, 1, {})
        c == UtilsEntryLoop("client", cfg.client, 1, d.ids)
        s == UtilsEntryLoop("server", cfg.server, 1, c.ids)
        g == utils_compute_init_graph(cfg)
    IN IF d.err # OK THEN {d.err}
       ELSE IF c.err # OK THEN {c.err}
       ELSE IF s.err # OK THEN {s.err}
       ELSE IF Cardinality(s.ids) # Len(cfg.drone) + Len(cfg.client) + Len(cfg.server)
       THEN {Err(UtilsMsgAssert, <<>>)}
       ELSE UtilsThen({utils_validate_all_neighbors_are_drones(cfg, d.ids)},
            UtilsThen(utils_validate_bidirectional_graph(g),
            UtilsThen(utils_validate_connected_graph(g),
                      utils_validate_edges_clients_servers(g, d.ids))))

UtilsAccepts(cfg) == OK \in utils_validate_config(cfg)
UtilsRejects(cfg) == \E u \in utils_validate_config(cfg) : u # OK /\ u.msg \notin UtilsPanics
UtilsPanicsOn(cfg) == \E u \in utils_validate_config(cfg) : u.msg \in UtilsPanics

\* C37: every drone of the Config lists at least one neighbor.
NoIsolatedDrone(cfg) ==
    \A i \in DOMAIN cfg.drone : cfg.drone[i].connected_node_ids # <<>>

\* C37 (as the claim states it): once validate_config of validate.rs has
\* returned, the validator of utils_.rs returns on the same Config, without a
\* panic, and accepts it exactly when validate.rs accepted it.
C37_ValidatorsAgree ==
    Done => /\ result.msg # MsgAssert
            /\ \A u \in utils_validate_config(config) :
                   /\ u.msg \notin UtilsPanics
                   /\ (u = OK) <=> (result = OK)

\* C37: what is left of the agreement: the two validators agree, and
\* neither panics, on the Configs of two nodes or more in which no drone has
\* an empty neighbor list, and on the Configs of one node or none.
C37_AgreeWithoutIsolatedDrone ==
    (Done /\ (NoIsolatedDrone(config) \/ Len(AllIds(config)) <= 1))
        => /\ result.msg # MsgAssert
           /\ \A u \in utils_validate_config(config) :
                  /\ u.msg \notin UtilsPanics
                  /\ (u = OK) <=> (result = OK)

\* C37 witness: two isolated drones have been validated: validate.rs has
\* rejected them as not connected and utils_.rs accepts them.
C37_Witness ==
    /\ Done
    /\ Len(config.drone) = 2 /\ config.client = <<>> /\ config.server = <<>>
    /\ \A i \in DOMAIN config.drone : config.drone[i].connected_node_ids = <<>>
    /\ result = Err(MsgNotConnected, <<>>)
    /\ utils_validate_config(config) = {OK}

\* C37: an isolated drone beside a connected pair: validate.rs returns an
\* error, utils_.rs panics when the isolated drone is the start of its last
\* traversal and returns an error otherwise.
C37_PanicWitness ==
    /\ Done
    /\ result # OK /\ result.msg # MsgAssert
    /\ UtilsPanicsOn(config)
    /\ UtilsRejects(config)
    /\ ~UtilsAccepts(config)
============================================================================
